---------------------------- MODULE Spec2Model ----------------------------
(***************************************************************************)
(* A model of the partition planner and the allocation strategies of       *)
(* disks-rs (crates/partitioning), with the mock disk of crates/disks      *)
(* that the planner is seeded from.                                        *)
(*                                                                         *)
(* Positions are u64 values.  A value that wrapped around 2^64 is kept as  *)
(* a negative integer n standing for 2^64 + n (2^64 is a multiple of the   *)
(* alignment, so remainders agree); the U64 comparisons below order the    *)
(* values as unsigned numbers.  Arithmetic that leaves the u64 range       *)
(* panics in a build with overflow checks ("debug") and wraps in one       *)
(* without ("release"): every call takes either outcome.                   *)
(*                                                                         *)
(* The log macros (debug!, warn!) are not modelled.                        *)
(***************************************************************************)
EXTENDS Integers, Sequences, FiniteSets, TLC

VARIABLES
    disk,       \* the MockDisk: [sectors, partitions]
    planner,    \* the Planner: [usable_start, usable_end, changes, original_regions]
    pc,         \* "disk", "built", "planning", "unchanged", "applied", "panicked",
                \* "planned" or "read"
    op,         \* the last operation called
    args,       \* its arguments, where the specification records them
    result,     \* what the last operation returned
    strategy,   \* the Strategy: [allocation, region, requests]
    run,        \* bookkeeping of the current run of plan_add_partition calls
    devices,    \* the pool of the Provisioner: a sequence of devices
    configs,    \* its strategy definitions, by name
    plans,      \* what Provisioner::plan returned
    image,      \* the bytes handed to Superblock::from_bytes: [len, at]
    sysfs,      \* the node of a block device under the sysfs root:
                \* [name, size, children]
    blkpg,      \* a block device with a GPT: [kernel, gpt, log], the partitions
                \* of the kernel, the entries of the table and the BLKPG requests
    loops       \* the loop devices of the kernel and the LoopDevice values of
                \* the program: [devices, handles]

vars == <<disk, planner, pc, op, args, result, strategy, run, devices, configs, plans,
          image, sysfs, blkpg, loops>>

-----------------------------------------------------------------------------
(* Bounds of the model *)

\* size of the mock disk in MiB
DiskMiB == 2

\* partitions put on the mock disk before the planner is created
MaxParts == 2

\* length of the change queue
MaxChanges == 3

\* requests added to a strategy
MaxRequests == 2

\* devices in the pool of the provisioner
MaxDevices == 2

\* find-disk commands over all strategies, where only they are parsed
MaxFinds == 2

\* commands over all strategies
MaxCommands == 3

\* frames the stack has room for
StackFrames == 4

-----------------------------------------------------------------------------
(* Program constants *)

PARTITION_ALIGNMENT == 1024 * 1024

SECTOR_SIZE == 512

-----------------------------------------------------------------------------
(* u64 values *)

U64Lt(a, b) == IF (a < 0) = (b < 0) THEN a < b ELSE b < 0

U64Le(a, b) == a = b \/ U64Lt(a, b)

U64Max(a, b) == IF U64Lt(a, b) THEN b ELSE a

U64Min(a, b) == IF U64Lt(b, a) THEN b ELSE a

\* a + b leaves the u64 range
AddOverflows(a, b) == (a < 0 /\ b < 0) \/ ((a < 0 \/ b < 0) /\ a + b >= 0)

\* a - b leaves the u64 range
SubOverflows(a, b) == U64Lt(a, b)

-----------------------------------------------------------------------------
(* Sequences *)

RemoveAt(s, i) == SubSeq(s, 1, i - 1) \o SubSeq(s, i + 1, Len(s))

RECURSIVE InsertDesc(_, _)
InsertDesc(x, s) ==
    IF s = <<>> THEN <<x>>
    ELSE IF x >= Head(s) THEN <<x>> \o s
    ELSE <<Head(s)>> \o InsertDesc(x, Tail(s))

RECURSIVE SortDesc(_)
SortDesc(s) == IF s = <<>> THEN <<>> ELSE InsertDesc(Head(s), SortDesc(Tail(s)))

RECURSIVE SelectSeqBy(_, _)
SelectSeqBy(s, T) ==
    IF s = <<>> THEN <<>>
    ELSE (IF Head(s).type = T THEN <<Head(s)>> ELSE <<>>) \o SelectSeqBy(Tail(s), T)

-----------------------------------------------------------------------------
(* Regions and alignment: planner.rs *)

Region(start, end) == [start |-> start, end |-> end]

\* a slip: only the start of b is looked at
overlaps_with_start_only(a, b) == U64Le(a.start, b.start) /\ U64Lt(b.start, a.end)

overlaps_with(a, b) == U64Lt(a.start, b.end) /\ U64Lt(b.start, a.end)

\* a slip: the test inverted
is_aligned_inverted(value, alignment) == value % alignment # 0

is_aligned(value, alignment) == value % alignment = 0

\* align_up: to the nearest multiple, down on a tie
align_up(value, alignment) ==
    LET remainder == value % alignment IN
    IF remainder = 0 THEN value
    ELSE IF remainder > alignment \div 2 THEN value + (alignment - remainder)
    ELSE value - remainder

\* align_down: to the nearest multiple, up on a tie
align_down(value, alignment) ==
    LET remainder == value % alignment IN
    IF remainder = 0 THEN value
    ELSE IF remainder < alignment \div 2 THEN value - remainder
    ELSE value + (alignment - remainder)

\* the addition inside align_up / align_down leaves the u64 range
AlignOverflows(value, aligned) == value < 0 /\ aligned >= 0


-----------------------------------------------------------------------------
(* The mock disk: disks/src/mock.rs, disks/src/lib.rs *)

MockDiskNew(size_bytes) ==
    [sectors |-> size_bytes \div SECTOR_SIZE, partitions |-> <<>>]

MockAddPartition(d, start_bytes, end_bytes) ==
    LET start == start_bytes \div SECTOR_SIZE
        end == end_bytes \div SECTOR_SIZE
    IN [d EXCEPT !.partitions =
            Append(@, [number |-> Len(d.partitions) + 1,
                       start |-> start, end |-> end, size |-> end - start])]

\* BlockDevice::size
DeviceSize(d) == d.sectors * SECTOR_SIZE

-----------------------------------------------------------------------------
(* The planner: partitioning/src/planner.rs *)

AddPartition(start, end) == [type |-> "AddPartition", start |-> start, end |-> end]

DeletePartition(index) == [type |-> "DeletePartition", original_index |-> index]

\* Planner::new
PlannerNew(device) ==
    [usable_start |-> 0,
     usable_end |-> DeviceSize(device),
     changes |-> <<>>,
     original_regions |->
        [i \in 1..Len(device.partitions) |->
            Region(device.partitions[i].start, device.partitions[i].end)]]

with_start_offset(p, offset) == [p EXCEPT !.usable_start = offset]

with_end_offset(p, offset) == [p EXCEPT !.usable_end = offset]

\* Vec::remove for each index in turn (0-based); it panics on an index that
\* is not in the vector at that point
RECURSIVE RemoveEach(_, _)
RemoveEach(layout, indices) ==
    IF indices = <<>> THEN [panic |-> FALSE, regions |-> layout]
    ELSE IF Head(indices) >= Len(layout) THEN [panic |-> TRUE, regions |-> <<>>]
    ELSE RemoveEach(RemoveAt(layout, Head(indices) + 1), Tail(indices))

\* Planner::current_layout
current_layout(p) ==
    LET dels == SelectSeqBy(p.changes, "DeletePartition")
        deleted_indices == SortDesc([i \in 1..Len(dels) |-> dels[i].original_index])
        adds == SelectSeqBy(p.changes, "AddPartition")
        kept == RemoveEach(p.original_regions, deleted_indices)
    IN IF kept.panic THEN kept
       ELSE [panic |-> FALSE,
             regions |-> kept.regions \o
                 [i \in 1..Len(adds) |-> Region(adds[i].start, adds[i].end)]]

\* the aligned, clamped region plan_add_partition works with
AlignedStart(p, start) == U64Max(align_up(start, PARTITION_ALIGNMENT), p.usable_start)

AlignedEnd(p, end) == U64Min(align_down(end, PARTITION_ALIGNMENT), p.usable_end)

\* Planner::plan_add_partition; b is the build
plan_add_partition(p, start, end, b) ==
    LET aligned_start == AlignedStart(p, start)
        aligned_end == AlignedEnd(p, end)
        new_region == Region(aligned_start, aligned_end)
        current == current_layout(p)
    IN IF b = "debug" /\ (AlignOverflows(start, align_up(start, PARTITION_ALIGNMENT))
                          \/ AlignOverflows(end, align_down(end, PARTITION_ALIGNMENT)))
       THEN [planner |-> p, result |-> "panic"]
       ELSE IF is_aligned(start, PARTITION_ALIGNMENT) /\ aligned_start # start
       THEN [planner |-> p, result |-> "RegionOutOfBounds"]
       ELSE IF is_aligned(end, PARTITION_ALIGNMENT) /\ aligned_end # end
       THEN [planner |-> p, result |-> "RegionOutOfBounds"]
       ELSE IF U64Lt(aligned_start, p.usable_start) \/ U64Lt(p.usable_end, aligned_end)
       THEN [planner |-> p, result |-> "RegionOutOfBounds"]
       ELSE IF U64Le(aligned_end, aligned_start)
       THEN [planner |-> p, result |-> "RegionOutOfBounds"]
       ELSE IF current.panic
       THEN [planner |-> p, result |-> "panic"]
       ELSE IF \E i \in 1..Len(current.regions) : overlaps_with(new_region, current.regions[i])
       THEN [planner |-> p, result |-> "RegionOverlap"]
       ELSE [planner |-> [p EXCEPT !.changes = Append(@, AddPartition(aligned_start, aligned_end))],
             result |-> "Ok"]

\* a slip: the change is queued before the index is validated
plan_delete_partition_push_first(p, index, b) ==
    [planner |-> [p EXCEPT !.changes = Append(@, DeletePartition(index))],
     result |-> IF index >= Len(p.original_regions) THEN "RegionOutOfBounds" ELSE "Ok"]

\* Planner::plan_delete_partition; the error value holds usable_size()
plan_delete_partition(p, index, b) ==
    IF index >= Len(p.original_regions)
    THEN IF b = "debug" /\ SubOverflows(p.usable_end, p.usable_start)
         THEN [planner |-> p, result |-> "panic"]
         ELSE [planner |-> p, result |-> "RegionOutOfBounds"]
    ELSE [planner |-> [p EXCEPT !.changes = Append(@, DeletePartition(index))],
          result |-> "Ok"]

\* a slip: pop_front for pop_back
undo_pop_front(p) ==
    IF p.changes # <<>>
    THEN [planner |-> [p EXCEPT !.changes = Tail(@)], result |-> "true"]
    ELSE [planner |-> p, result |-> "false"]

\* Planner::undo
undo(p) ==
    IF p.changes # <<>>
    THEN [planner |-> [p EXCEPT !.changes = SubSeq(@, 1, Len(@) - 1)], result |-> "true"]
    ELSE [planner |-> p, result |-> "false"]

\* a slip: the initial regions are cleared with the queue
reset_with_regions(p) ==
    [planner |-> [p EXCEPT !.changes = <<>>, !.original_regions = <<>>], result |-> "unit"]

\* Planner::reset
reset(p) == [planner |-> [p EXCEPT !.changes = <<>>], result |-> "unit"]

\* a slip: the initial regions are kept
plan_initialize_disk_queue_only(p) ==
    [planner |-> [p EXCEPT !.changes = <<>>], result |-> "Ok"]

\* Planner::plan_initialize_disk
plan_initialize_disk(p) ==
    [planner |-> [p EXCEPT !.changes = <<>>, !.original_regions = <<>>], result |-> "Ok"]

-----------------------------------------------------------------------------
(* The strategy: partitioning/src/strategy.rs *)

Exact(n) == [kind |-> "Exact", min |-> n, max |-> n]

AtLeast(n) == [kind |-> "AtLeast", min |-> n, max |-> n]

Range(min, max) == [kind |-> "Range", min |-> min, max |-> max]

Remaining == [kind |-> "Remaining", min |-> 0, max |-> 0]

\* Strategy::new
StrategyNew(allocation, region) ==
    [allocation |-> allocation, region |-> region, requests |-> <<>>]

\* Strategy::add_request
add_request(st, request) == [st EXCEPT !.requests = Append(@, request)]

\* Region::size
size(r) == r.end - r.start

\* sort_by_key(|r| r.start): a stable sort
RECURSIVE InsertByStart(_, _)
InsertByStart(r, s) ==
    IF s = <<>> THEN <<r>>
    ELSE IF U64Lt(r.start, Head(s).start) THEN <<r>> \o s
    ELSE <<Head(s)>> \o InsertByStart(r, Tail(s))

RECURSIVE SortByStart(_)
SortByStart(s) ==
    IF s = <<>> THEN <<>>
    ELSE InsertByStart(s[Len(s)], SortByStart(SubSeq(s, 1, Len(s) - 1)))

\* the loop of find_free_regions over the sorted layout
RECURSIVE Gaps(_, _, _)
Gaps(layout, current, disk_size) ==
    IF layout = <<>>
    THEN IF U64Lt(current, disk_size) THEN <<Region(current, disk_size)>> ELSE <<>>
    ELSE (IF U64Lt(current, Head(layout).start)
          THEN <<Region(current, Head(layout).start)>> ELSE <<>>)
         \o Gaps(Tail(layout), Head(layout).end, disk_size)

\* Strategy::find_free_regions; the layout is one that current_layout() returned
find_free_regions(p) ==
    Gaps(SortByStart(current_layout(p).regions), p.usable_start, p.usable_end)

\* Iterator::max_by_key(|r| r.size()): the last of the largest elements
RECURSIVE MaxBySize(_, _)
MaxBySize(regions, best) ==
    IF regions = <<>> THEN best
    ELSE MaxBySize(Tail(regions),
                   IF U64Le(size(best), size(Head(regions))) THEN Head(regions) ELSE best)

\* the target region of apply, after plan_initialize_disk where it is called
Target(st, p) ==
    IF st.allocation = "InitializeWholeDisk"
    THEN [planner |-> plan_initialize_disk(p).planner, result |-> "Ok",
          region |-> Region(p.usable_start, p.usable_end)]
    ELSE IF st.allocation = "SpecificRegion"
    THEN [planner |-> p, result |-> "Ok", region |-> st.region]
    ELSE IF current_layout(p).panic
    THEN [planner |-> p, result |-> "panic", region |-> Region(0, 0)]
    ELSE LET free_regions == find_free_regions(p) IN
         IF free_regions = <<>>
         THEN [planner |-> p, result |-> "NoFreeRegions", region |-> Region(0, 0)]
         ELSE [planner |-> p, result |-> "Ok",
               region |-> IF st.allocation = "LargestFree"
                          THEN MaxBySize(Tail(free_regions), Head(free_regions))
                          ELSE Head(free_regions)]

\* the first pass of apply over the requests
RECURSIVE FixedSizes(_)
FixedSizes(requests) ==
    IF requests = <<>> THEN <<>>
    ELSE (IF Head(requests).kind = "Exact" THEN <<Head(requests).min>> ELSE <<>>)
         \o FixedSizes(Tail(requests))

\* flexible_requests: the minimum and the optional maximum of each
RECURSIVE FlexibleRequests(_)
FlexibleRequests(requests) ==
    IF requests = <<>> THEN <<>>
    ELSE (IF Head(requests).kind = "Exact" THEN <<>>
          ELSE <<[min |-> Head(requests).min,
                  has_max |-> Head(requests).kind = "Range",
                  max |-> Head(requests).max]>>)
         \o FlexibleRequests(Tail(requests))

RECURSIVE Sum(_)
Sum(s) == IF s = <<>> THEN 0 ELSE Head(s) + Sum(Tail(s))

\* min + per_flexible, clipped to the maximum where there is one
ClippedSize(f, wanted) ==
    IF f.has_max /\ U64Lt(f.max, wanted) THEN f.max ELSE wanted

\* the two allocation loops of apply: plan each size at current, in turn
RECURSIVE Allocate(_, _, _, _, _)
Allocate(p, sizes, current, remaining, b) ==
    IF sizes = <<>>
    THEN [planner |-> p, result |-> "Ok", current |-> current, remaining |-> remaining]
    ELSE LET sz == Head(sizes)
             r == plan_add_partition(p, current, current + sz, b)
         IN IF b = "debug" /\ AddOverflows(current, sz)
            THEN [planner |-> p, result |-> "panic", current |-> current, remaining |-> remaining]
            ELSE IF r.result # "Ok"
            THEN [planner |-> r.planner, result |-> r.result,
                  current |-> current, remaining |-> remaining]
            ELSE IF b = "debug" /\ SubOverflows(remaining, sz)
            THEN [planner |-> r.planner, result |-> "panic",
                  current |-> current, remaining |-> remaining]
            ELSE Allocate(r.planner, Tail(sizes), current + sz, remaining - sz, b)

\* the end of apply: the rest goes to the last flexible partition
GiveRemaining(p, last, per_flexible, current, remaining, b) ==
    LET undone == undo(p).planner
        final_size == ClippedSize(last, last.min + per_flexible + remaining)
        start == current - per_flexible - last.min
        r == plan_add_partition(undone, start, start + final_size, b)
    IN IF b = "debug"
          /\ (SubOverflows(current, per_flexible)
              \/ SubOverflows(current - per_flexible, last.min)
              \/ AddOverflows(start, final_size))
       THEN [planner |-> undone, result |-> "panic"]
       ELSE [planner |-> r.planner, result |-> r.result]

\* Strategy::apply; b is the build
apply(st, p, b) ==
    LET t == Target(st, p)
        target == t.region
        remaining == target.end - target.start
        fixed == FixedSizes(st.requests)
        flexible_requests == FlexibleRequests(st.requests)
        total_fixed == Sum(fixed)
        min_flexible == Sum([i \in 1..Len(flexible_requests) |-> flexible_requests[i].min])
        distributable == remaining - total_fixed - min_flexible
        per_flexible == IF flexible_requests # <<>>
                        THEN distributable \div Len(flexible_requests) ELSE 0
        sizes == fixed \o
                 [i \in 1..Len(flexible_requests) |->
                     ClippedSize(flexible_requests[i],
                                 flexible_requests[i].min + per_flexible)]
        a == Allocate(t.planner, sizes, target.start, remaining, b)
    IN IF t.result # "Ok" THEN [planner |-> t.planner, result |-> t.result]
       ELSE IF b = "debug" /\ SubOverflows(target.end, target.start)
       THEN [planner |-> t.planner, result |-> "panic"]
       ELSE IF U64Lt(remaining, total_fixed + min_flexible)
       THEN [planner |-> t.planner, result |-> "RegionOutOfBounds"]
       ELSE IF a.result # "Ok" THEN [planner |-> a.planner, result |-> a.result]
       ELSE IF U64Lt(0, a.remaining) /\ flexible_requests # <<>>
       THEN GiveRemaining(a.planner, flexible_requests[Len(flexible_requests)],
                          per_flexible, a.current, a.remaining, b)
       ELSE [planner |-> a.planner, result |-> "Ok"]

-----------------------------------------------------------------------------
(* The provisioner: provisioning/src/provisioner.rs *)

\* find-disk without a constraints node
NoConstraints == [kind |-> "None", min |-> 0, max |-> 0]

FindDisk(name, constraints) ==
    [type |-> "FindDisk", name |-> name, constraints |-> constraints]

CreatePartitionTable(name) ==
    [type |-> "CreatePartitionTable", name |-> name, constraints |-> NoConstraints]

CreatePartition(name, constraints) ==
    [type |-> "CreatePartition", name |-> name, constraints |-> constraints]

\* inherits is "" where the strategy names no parent
StrategyDefinition(name, inherits, commands) ==
    [name |-> name, inherits |-> inherits, commands |-> commands]

\* Provisioner::strategy_parents, by recursion; stack is the number of
\* frames left, and the recursion that uses them up overflows the stack
RECURSIVE strategy_parents(_, _, _)
strategy_parents(cfgs, st, stack) ==
    IF stack = 0 THEN [overflow |-> TRUE, chain |-> <<>>]
    ELSE IF st.inherits \in DOMAIN cfgs
    THEN LET parents == strategy_parents(cfgs, cfgs[st.inherits], stack - 1)
         IN [overflow |-> parents.overflow, chain |-> parents.chain \o <<st>>]
    ELSE [overflow |-> FALSE, chain |-> <<st>>]

\* chain.iter().flat_map(|s| &s.commands)
RECURSIVE FlatCommands(_)
FlatCommands(chain) ==
    IF chain = <<>> THEN <<>> ELSE Head(chain).commands \o FlatCommands(Tail(chain))

\* a filter that lets every device through
MatchesAny(d, c) == TRUE

\* the filter on the constraints of find-disk
Matches(d, c) ==
    CASE c.kind = "AtLeast" -> DeviceSize(d) >= c.min
      [] c.kind = "Exact" -> DeviceSize(d) = c.min
      [] c.kind = "Range" -> DeviceSize(d) >= c.min /\ DeviceSize(d) <= c.max
      [] OTHER -> TRUE

\* a find-disk that branches over the first candidate only
MatchingFirst(devs, c, assigned, i) ==
    LET candidates == {k \in i..Len(devs) :
                          /\ Matches(devs[k], c)
                          /\ \A n \in DOMAIN assigned : assigned[n].device # k}
    IN IF candidates = {} THEN <<>>
       ELSE <<CHOOSE k \in candidates : \A m \in candidates : k <= m>>

\* the devices a find-disk branches over, as indices of the pool in pool
\* order: those that match and that no name is assigned yet
RECURSIVE MatchingDevices(_, _, _, _)
MatchingDevices(devs, c, assigned, i) ==
    IF i > Len(devs) THEN <<>>
    ELSE (IF Matches(devs[i], c) /\ \A n \in DOMAIN assigned : assigned[n].device # i
          THEN <<i>> ELSE <<>>)
         \o MatchingDevices(devs, c, assigned, i + 1)

\* the SizeRequirement of a create-partition
SizeOf(c) == IF c.kind = "None" THEN Remaining ELSE c

DevicePlan(devs, i) ==
    [device |-> i, planner |-> PlannerNew(devs[i]),
     strategy |-> StrategyNew("LargestFree", Region(0, 0))]

\* map with the entry of key k set to v
Insert(map, k, v) == [x \in DOMAIN map \cup {k} |-> IF x = k THEN v ELSE map[x]]

\* Op at a value that is computed once, however often Op uses it
Once(value, Op(_)) == CHOOSE out \in {Op(x) : x \in {value}} : TRUE

\* the end of create_plans_for_strategy: every strategy applied to its
\* planner, and the plan pushed
ApplyAll(st, assigned, b) ==
    Once([n \in DOMAIN assigned |->
             Once(apply(assigned[n].strategy, assigned[n].planner, b), LAMBDA r : r)],
         LAMBDA applied :
            IF \E n \in DOMAIN assigned : applied[n].result = "panic"
            THEN [panic |-> TRUE, plans |-> <<>>]
            ELSE [panic |-> FALSE,
                  plans |-> <<[strategy |-> st.name,
                               device_assignments |->
                                   [n \in DOMAIN assigned |->
                                       [assigned[n] EXCEPT
                                           !.planner = applied[n].planner]]]>>])

\* Provisioner::create_plans_for_strategy from the command at the head of
\* commands on; all is the whole chain of commands, where every branch of a
\* find-disk starts again, and matching the devices left to branch over.
\* The result is the plans pushed, in order.
RECURSIVE create_plans(_, _, _, _, _, _)
RECURSIVE Branches(_, _, _, _, _, _, _)
Branches(devs, st, all, assigned, name, matching, b) ==
    IF matching = <<>> THEN [panic |-> FALSE, plans |-> <<>>]
    ELSE Once(create_plans(devs, st, all, all,
                  Insert(assigned, name, DevicePlan(devs, Head(matching))), b),
              LAMBDA first :
                 IF first.panic THEN first
                 ELSE Once(Branches(devs, st, all, assigned, name, Tail(matching), b),
                           LAMBDA rest :
                              [panic |-> rest.panic,
                               plans |-> first.plans \o rest.plans]))

create_plans(devs, st, all, commands, assignments, b) ==
    Once(assignments, LAMBDA assigned :
        IF commands = <<>> THEN ApplyAll(st, assigned, b)
        ELSE LET command == Head(commands) IN
             IF command.type = "FindDisk"
             THEN IF command.name \in DOMAIN assigned
                  THEN create_plans(devs, st, all, Tail(commands), assigned, b)
                  ELSE Branches(devs, st, all, assigned, command.name,
                                MatchingDevices(devs, command.constraints, assigned, 1), b)
             ELSE IF command.name \notin DOMAIN assigned
             THEN create_plans(devs, st, all, Tail(commands), assigned, b)
             ELSE IF command.type = "CreatePartitionTable"
             THEN create_plans(devs, st, all, Tail(commands),
                      [assigned EXCEPT ![command.name].strategy =
                          StrategyNew("InitializeWholeDisk", Region(0, 0))], b)
             ELSE create_plans(devs, st, all, Tail(commands),
                      [assigned EXCEPT ![command.name].strategy =
                          add_request(@, SizeOf(command.constraints))], b))

\* the empty HashMap
NoAssignments == [n \in {} |-> 0]

NoConfigs == [n \in {} |-> 0]

\* the plans of one strategy: the call of create_plans_for_strategy in plan
plans_of(devs, cfgs, name, stack, b) ==
    Once(strategy_parents(cfgs, cfgs[name], stack), LAMBDA parents :
        IF parents.overflow THEN [result |-> "stack overflow", plans |-> <<>>]
        ELSE Once(FlatCommands(parents.chain), LAMBDA all :
                 Once(create_plans(devs, cfgs[name], all, all, NoAssignments, b),
                      LAMBDA r : [result |-> IF r.panic THEN "panic" ELSE "Ok",
                                  plans |-> r.plans])))

\* Provisioner::plan; order is the order in which configs.values() yields
\* the strategies, stack the frames the stack has room for
RECURSIVE plan(_, _, _, _, _)
plan(devs, cfgs, order, stack, b) ==
    IF order = <<>> THEN [result |-> "Ok", plans |-> <<>>]
    ELSE Once(plans_of(devs, cfgs, Head(order), stack, b), LAMBDA first :
             IF first.result # "Ok" THEN [result |-> first.result, plans |-> <<>>]
             ELSE Once(plan(devs, cfgs, Tail(order), stack, b), LAMBDA rest :
                      [result |-> rest.result,
                       plans |-> IF rest.result = "Ok" THEN first.plans \o rest.plans
                                 ELSE <<>>]))

-----------------------------------------------------------------------------
(* Superblock detection: superblock/src/lib.rs *)

\* An image is [len, at]: its length in bytes and, for each offset a
\* detector reads a magic number from, the magic number stored there ("" for
\* bytes that are no magic number of any kind).  The bytes outside the magic
\* fields decide nothing in detection and are not kept.

\* the kinds, in the order from_bytes tries them
Kinds == <<"Ext4", "Btrfs", "F2FS", "XFS", "LUKS2">>

\* Detection::OFFSET
OFFSET(kind) ==
    CASE kind = "Ext4" -> 1024
      [] kind = "Btrfs" -> 65536
      [] kind = "F2FS" -> 1024
      [] kind = "XFS" -> 0
      [] kind = "LUKS2" -> 0

\* Detection::MAGIC_OFFSET
MAGIC_OFFSET(kind) ==
    CASE kind = "Ext4" -> 1024 + 56
      [] kind = "Btrfs" -> 65536 + 64
      [] kind = "F2FS" -> 1024
      [] kind = "XFS" -> 0
      [] kind = "LUKS2" -> 0

\* size_of::<T::Magic>()
MagicSize(kind) ==
    CASE kind = "Ext4" -> 2
      [] kind = "Btrfs" -> 8
      [] kind = "F2FS" -> 4
      [] kind = "XFS" -> 4
      [] kind = "LUKS2" -> 6

\* Detection::SIZE, the size of the record of each kind
SIZE(kind) ==
    CASE kind = "Ext4" -> 1020
      [] kind = "Btrfs" -> 2931
      [] kind = "F2FS" -> 3072
      [] kind = "XFS" -> 264
      [] kind = "LUKS2" -> 4096

\* the magic numbers of each kind, named by their bytes
Magics(kind) ==
    CASE kind = "Ext4" -> {"53 EF"}
      [] kind = "Btrfs" -> {"_BHRfS_M"}
      [] kind = "F2FS" -> {"10 20 F5 F2"}
      [] kind = "XFS" -> {"XFSB"}
      [] kind = "LUKS2" -> {"LUKS BA BE", "SKUL BA BE"}

\* the offsets a magic number is read from
MagicOffsets == {MAGIC_OFFSET(Kinds[i]) : i \in 1..Len(Kinds)}

\* the bytes before any were written
NoBytes == [len |-> 0, at |-> [o \in MagicOffsets |-> ""]]

\* a predicate that takes any bytes for the magic number
is_valid_magic_any(kind, magic) == TRUE

\* Detection::is_valid_magic
is_valid_magic(kind, magic) == magic \in Magics(kind)

\* read_exact of size bytes at offset succeeds when the image holds them
read_exact(img, offset, count) == offset + count <= img.len

\* detect_superblock: "Some", "None" or the error "IO"
detect_superblock(kind, img) ==
    IF ~read_exact(img, MAGIC_OFFSET(kind), MagicSize(kind)) THEN "IO"
    ELSE IF is_valid_magic(kind, img.at[MAGIC_OFFSET(kind)])
    THEN IF read_exact(img, OFFSET(kind), SIZE(kind)) THEN "Some" ELSE "IO"
    ELSE "None"

RECURSIVE TryFrom(_, _)
\* the chain of detectors of from_bytes from the i-th kind on
TryFrom(img, i) ==
    IF i > Len(Kinds) THEN [result |-> "Err", value |-> "UnknownSuperblock"]
    ELSE LET sb == detect_superblock(Kinds[i], img) IN
         IF sb = "IO" THEN [result |-> "Err", value |-> "IO"]
         ELSE IF sb = "Some" THEN [result |-> "Ok", value |-> Kinds[i]]
         ELSE TryFrom(img, i + 1)

\* Superblock::from_bytes
from_bytes(img) == TryFrom(img, 1)

\* the bytes from_reader reads before it detects: 128 KiB
ReadSize == 128 * 1024

\* Superblock::from_reader
from_reader(img) ==
    IF ~read_exact(img, 0, ReadSize) THEN [result |-> "Err", value |-> "IO"]
    ELSE from_bytes([img EXCEPT !.len = ReadSize])

-----------------------------------------------------------------------------
(* Discovery of block devices: disks/src *)

\* A name is a sequence of characters.  The characters of the model:
\* the ASCII lower-case letters and digits the names are made of, an ASCII
\* upper-case letter, a letter outside ASCII and a numeric character that is
\* no decimal digit.
LowerCase == {"a", "b", "c", "d", "e", "k", "l", "m", "n", "o", "p", "r", "s", "v"}

UpperCase == {"A"}

Digits == {"0"}

\* U+00E9, alphabetic
OtherLetters == {"e-acute"}

\* U+00B2, of the category No
OtherNumerics == {"superscript-2"}

\* char::is_alphabetic
is_alphabetic(c) == c \in LowerCase \cup UpperCase \cup OtherLetters

\* char::is_numeric
is_numeric(c) == c \in Digits \cup OtherNumerics

\* the class \d of a regex
is_digit(c) == c \in Digits

\* str::starts_with
starts_with(name, prefix) ==
    Len(name) >= Len(prefix) /\ SubSeq(name, 1, Len(prefix)) = prefix

\* the node the name denotes was not created
NoNode == [name |-> <<>>, size |-> 0, children |-> <<>>]

\* Partition::from_sysfs_path on a child of the node: none where the child
\* has no file named partition
PartitionFromSysfs(child) ==
    IF child.partition = 0 THEN <<>>
    ELSE <<[number |-> child.partition, start |-> child.start, size |-> child.size,
            end |-> child.start + child.size]>>

RECURSIVE Partitions(_)
\* the filter_map over the children of the node, in directory order
Partitions(children) ==
    IF children = <<>> THEN <<>>
    ELSE PartitionFromSysfs(Head(children)) \o Partitions(Tail(children))

RECURSIVE InsertByNumber(_, _)
InsertByNumber(s, x) ==
    IF s = <<>> THEN <<x>>
    ELSE IF x.number < Head(s).number THEN <<x>> \o s
    ELSE <<Head(s)>> \o InsertByNumber(Tail(s), x)

RECURSIVE SortByNumber(_)
\* partitions.sort_by_key(|p| p.number): a stable sort
SortByNumber(s) ==
    IF s = <<>> THEN <<>>
    ELSE InsertByNumber(SortByNumber(SubSeq(s, 1, Len(s) - 1)), s[Len(s)])

\* BasicDisk::from_sysfs_path: none where the directory of the node cannot
\* be read
BasicDiskFromSysfs(fs, name) ==
    IF name = <<>> \/ fs.name # name THEN <<>>
    ELSE <<[sectors |-> fs.size, partitions |-> SortByNumber(Partitions(fs.children))]>>

\* a pattern that takes every name with the prefix
scsi_matching_prefix(name) == starts_with(name, <<"s", "d">>)

\* the test of scsi::Disk::from_sysfs_path
scsi_matching(name) ==
    starts_with(name, <<"s", "d">>) /\ (\A i \in 3..Len(name) : is_alphabetic(name[i]))

RECURSIVE DigitsFrom(_, _)
\* the position after the digits that start at position i of the name
DigitsFrom(name, i) ==
    IF i <= Len(name) /\ is_digit(name[i]) THEN DigitsFrom(name, i + 1) ELSE i

\* ^nvme\d+n\d+$
nvme_matching(name) ==
    /\ starts_with(name, <<"n", "v", "m", "e">>)
    /\ LET n == DigitsFrom(name, 5) IN
       /\ n > 5
       /\ n <= Len(name)
       /\ name[n] = "n"
       /\ DigitsFrom(name, n + 1) > n + 1
       /\ DigitsFrom(name, n + 1) = Len(name) + 1

\* ^mmcblk\d+$
mmc_matching(name) ==
    /\ starts_with(name, <<"m", "m", "c", "b", "l", "k">>)
    /\ Len(name) > 6
    /\ DigitsFrom(name, 7) = Len(name) + 1

\* the test of virt::Disk::from_sysfs_path
virt_matching(name) ==
    starts_with(name, <<"v", "d">>) /\ (\A i \in 3..Len(name) : is_alphabetic(name[i]))

\* the test of loopback::Device::from_sysfs_path
loop_matching(name) ==
    starts_with(name, <<"l", "o", "o", "p">>) /\ (\A i \in 5..Len(name) : is_numeric(name[i]))

NotFound == [result |-> "Err", family |-> "NotFound", disk |-> <<>>]

\* BlockDevice::from_sysfs_path.  The disk of a loopback device is an
\* option, that of the other families is required.
BlockDeviceFromSysfs(fs, name) ==
    LET basic == BasicDiskFromSysfs(fs, name) IN
    IF scsi_matching(name) /\ basic # <<>>
    THEN [result |-> "Ok", family |-> "scsi", disk |-> basic]
    ELSE IF nvme_matching(name) /\ basic # <<>>
    THEN [result |-> "Ok", family |-> "nvme", disk |-> basic]
    ELSE IF mmc_matching(name) /\ basic # <<>>
    THEN [result |-> "Ok", family |-> "mmc", disk |-> basic]
    ELSE IF virt_matching(name) /\ basic # <<>>
    THEN [result |-> "Ok", family |-> "virtio", disk |-> basic]
    ELSE IF loop_matching(name)
    THEN [result |-> "Ok", family |-> "loopback", disk |-> basic]
    ELSE NotFound

-----------------------------------------------------------------------------
(* Synchronisation of the kernel with the GPT: partitioning/src/blkpg.rs *)

\* block_size of sync_gpt_partitions
BlockSize == 512

\* the empty map of partition numbers
NoPartitions == [n \in {} |-> 0]

\* a device without partitions and with an empty GPT
NoTable == [kernel |-> NoPartitions, gpt |-> NoPartitions, log |-> <<>>]

\* map without the entry of key k
Remove(map, k) == [x \in DOMAIN map \ {k} |-> map[x]]

RECURSIVE Ascending(_)
\* the numbers of a set in ascending order
Ascending(numbers) ==
    IF numbers = {} THEN <<>>
    ELSE LET least == CHOOSE n \in numbers : \A m \in numbers : n <= m
         IN <<least>> \o Ascending(numbers \ {least})

\* the kernel takes the BLKPG_DEL_PARTITION request: it refuses a number it
\* does not have and a partition that is in use
DeleteAccepted(kernel, pno) == pno \in DOMAIN kernel /\ ~kernel[pno].busy

\* the kernel takes the BLKPG_ADD_PARTITION request: it refuses a number it
\* already has and an extent that overlaps one of its partitions
AddAccepted(kernel, pno, start, length) ==
    /\ pno \notin DOMAIN kernel
    /\ \A n \in DOMAIN kernel :
          start + length <= kernel[n].start \/ kernel[n].start + kernel[n].length <= start

\* delete_partition: the kernel after the request and whether it was accepted
delete_partition(kernel, pno) ==
    IF DeleteAccepted(kernel, pno)
    THEN [ok |-> TRUE, kernel |-> Remove(kernel, pno)]
    ELSE [ok |-> FALSE, kernel |-> kernel]

\* add_partition
add_partition(kernel, pno, start, length) ==
    IF AddAccepted(kernel, pno, start, length)
    THEN [ok |-> TRUE,
          kernel |-> Insert(kernel, pno, [start |-> start, length |-> length, busy |-> FALSE])]
    ELSE [ok |-> FALSE, kernel |-> kernel]

RECURSIVE DeleteEach(_, _)
\* the loop over disk.partitions(): let _ = delete_partition(..)
DeleteEach(dev, numbers) ==
    IF numbers = <<>> THEN dev
    ELSE LET r == delete_partition(dev.kernel, Head(numbers))
         IN DeleteEach([dev EXCEPT !.kernel = r.kernel,
                                   !.log = Append(@, [request |-> "delete",
                                                      pno |-> Head(numbers), ok |-> r.ok])],
                       Tail(numbers))

RECURSIVE AddEach(_, _)
\* the loop over gpt.partitions(): add_partition(..)?
AddEach(dev, numbers) ==
    IF numbers = <<>> THEN [result |-> "Ok", dev |-> dev]
    ELSE LET entry == dev.gpt[Head(numbers)]
             r == add_partition(dev.kernel, Head(numbers),
                                entry.first_lba * BlockSize,
                                (entry.last_lba - entry.first_lba + 1) * BlockSize)
             next == [dev EXCEPT !.kernel = r.kernel,
                                 !.log = Append(@, [request |-> "add",
                                                    pno |-> Head(numbers), ok |-> r.ok])]
         IN IF r.ok THEN AddEach(next, Tail(numbers))
            ELSE [result |-> "Err", dev |-> next]

\* sync_gpt_partitions on a device whose node and table can be read; the
\* partitions of the disk are those the kernel shows in sysfs
sync_gpt_partitions(dev) ==
    AddEach(DeleteEach(dev, Ascending(DOMAIN dev.kernel)), Ascending(DOMAIN dev.gpt))

-----------------------------------------------------------------------------
(* Loop devices: partitioning/src/loopback.rs *)

\* the loop devices the kernel has: /dev/loop0 .. /dev/loop<MaxLoops - 1>
MaxLoops == 2

\* A loop device of the kernel is [backing, autoclear]: the file bound to it
\* ("" where it is unbound) and whether it is unbound at the last close.  A
\* LoopDevice of the program is a handle [devno, open]: the number in its
\* path and whether its descriptor is still open.
Unbound == [backing |-> "", autoclear |-> FALSE]

\* no LoopDevice created, every loop device unbound
NoLoops == [devices |-> [n \in 0..MaxLoops - 1 |-> Unbound], handles |-> <<>>]

\* the open descriptors of a loop device
Openers(ls, devno) ==
    {h \in 1..Len(ls.handles) : ls.handles[h].devno = devno /\ ls.handles[h].open}

\* LOOP_CTL_GET_FREE: the numbers of the unbound loop devices
Free(ls) == {n \in DOMAIN ls.devices : ls.devices[n].backing = ""}

\* LoopDevice::create
create(ls) ==
    IF Free(ls) = {} THEN [result |-> "Err", loops |-> ls]
    ELSE LET devno == CHOOSE n \in Free(ls) : \A m \in Free(ls) : n <= m
         IN [result |-> "Ok",
             loops |-> [ls EXCEPT !.handles = Append(@, [devno |-> devno, open |-> TRUE])]]

\* LoopDevice::attach that does not look at what LOOP_SET_FD returned
attach_ignoring_set_fd(ls, h, openable, backing_file, status_set) ==
    IF ~openable THEN [result |-> "Err", loops |-> ls]
    ELSE [result |-> IF status_set THEN "Ok" ELSE "Err",
          loops |-> [ls EXCEPT !.devices[ls.handles[h].devno] =
                                   [backing |-> backing_file, autoclear |-> FALSE]]]

\* LoopDevice::attach; openable is whether backing_file can be opened for
\* reading and writing, status_set whether the kernel takes LOOP_SET_STATUS64.
\* LOOP_SET_FD fails on a device that is bound.
attach(ls, h, openable, backing_file, status_set) ==
    IF ~openable THEN [result |-> "Err", loops |-> ls]
    ELSE IF ls.devices[ls.handles[h].devno].backing # ""
    THEN [result |-> "Err", loops |-> ls]
    ELSE [result |-> IF status_set THEN "Ok" ELSE "Err",
          loops |-> [ls EXCEPT !.devices[ls.handles[h].devno] =
                                   [backing |-> backing_file, autoclear |-> FALSE]]]

\* LoopDevice::detach.  LOOP_CLR_FD fails on a device that is unbound; on a
\* device with another open descriptor it succeeds and leaves the unbinding
\* to the last close.
detach(ls, h) ==
    LET devno == ls.handles[h].devno IN
    IF ls.devices[devno].backing = "" THEN [result |-> "Err", loops |-> ls]
    ELSE IF Cardinality(Openers(ls, devno)) > 1
    THEN [result |-> "Ok", loops |-> [ls EXCEPT !.devices[devno].autoclear = TRUE]]
    ELSE [result |-> "Ok", loops |-> [ls EXCEPT !.devices[devno] = Unbound]]

\* a LoopDevice is dropped: its OwnedFd is closed
drop(ls, h) ==
    LET devno == ls.handles[h].devno
        closed == [ls EXCEPT !.handles[h].open = FALSE]
    IN IF ls.devices[devno].autoclear /\ Openers(closed, devno) = {}
       THEN [closed EXCEPT !.devices[devno] = Unbound]
       ELSE closed

-----------------------------------------------------------------------------
(* The strategy parser: provisioning/src/lib.rs *)

\* a KDL document is the sequence of its nodes; a node has a name, the
\* properties name, summary and inherits (a typed value, or Absent), its
\* positional arguments and its children.  The documents are well-formed KDL.
Absent == [type |-> "absent", value |-> ""]

\* the severity a diagnostic declares: "none" where the variant of Error has
\* no diagnostic attribute
severity(e) ==
    CASE e = "UnsupportedNode" -> "warning"
      [] e \in {"InvalidType", "MissingProperty", "MissingEntry",
                "UnsupportedValue", "InvalidArguments"} -> "error"
      [] OTHER -> "none"

\* matches!(e.severity().unwrap_or(Severity::Error), Severity::Error)
is_fatal(e) == (IF severity(e) = "none" THEN "error" ELSE severity(e)) = "error"

get_property_str(node, name) ==
    IF node.properties[name] = Absent
    THEN [result |-> "Err", value |-> "MissingProperty"]
    ELSE IF node.properties[name].type # "String"
    THEN [result |-> "Err", value |-> "InvalidType"]
    ELSE [result |-> "Ok", value |-> node.properties[name].value]

\* commands::find_disk::parse, of a node without a constraints child
find_disk_parse(node) ==
    IF Len(node.arguments) # 1
    THEN [result |-> "Err", value |-> "InvalidArguments"]
    ELSE IF node.arguments[1].type # "String"
    THEN [result |-> "Err", value |-> "InvalidType"]
    ELSE [result |-> "Ok",
          value |-> [type |-> "FindDisk", name |-> node.arguments[1].value]]

\* the names the map of commands knows, as far as the documents use them
COMMANDS == {"find-disk"}

parse_command(node) ==
    IF node.name \notin COMMANDS
    THEN [result |-> "Err", value |-> "UnsupportedNode"]
    ELSE find_disk_parse(node)

\* the values of the outcomes of one kind, in their order
RECURSIVE ValuesOf(_, _)
ValuesOf(outcomes, kind) ==
    IF outcomes = <<>> THEN <<>>
    ELSE (IF Head(outcomes).result = kind THEN <<Head(outcomes).value>> ELSE <<>>)
         \o ValuesOf(Tail(outcomes), kind)

parse_strategy(node) ==
    LET name == get_property_str(node, "name")
        summary == get_property_str(node, "summary")
        inherits == IF node.properties["inherits"] # Absent
                    THEN get_property_str(node, "inherits")
                    ELSE [result |-> "Ok", value |-> "None"]
        parsed == [i \in 1..Len(node.children) |-> parse_command(node.children[i])]
        errors == ValuesOf(<<name, summary, inherits>>, "Err") \o ValuesOf(parsed, "Err")
    IN IF \E i \in 1..Len(errors) : is_fatal(errors[i])
       THEN [result |-> "Err", value |-> errors]
       ELSE [result |-> "Ok",
             value |-> [name |-> name.value,
                        summary |-> summary.value,
                        inherits |-> inherits.value,
                        commands |-> ValuesOf(parsed, "Ok")]]

\* the loop of Parser::new over the nodes of the document
RECURSIVE ParseNodes(_, _, _)
ParseNodes(nodes, strategies, errors) ==
    IF nodes = <<>> THEN [strategies |-> strategies, errors |-> errors]
    ELSE IF Head(nodes).name = "strategy"
    THEN IF parse_strategy(Head(nodes)).result = "Ok"
         THEN ParseNodes(Tail(nodes),
                         Append(strategies, parse_strategy(Head(nodes)).value), errors)
         ELSE ParseNodes(Tail(nodes), strategies,
                         errors \o parse_strategy(Head(nodes)).value)
    ELSE ParseNodes(Tail(nodes), strategies, Append(errors, "UnsupportedNode"))

\* Parser::new
ParserNew(document) ==
    IF ParseNodes(document, <<>>, <<>>).errors # <<>>
    THEN [result |-> "Err", value |-> ParseNodes(document, <<>>, <<>>).errors]
    ELSE [result |-> "Ok", value |-> ParseNodes(document, <<>>, <<>>).strategies]

-----------------------------------------------------------------------------
(* Inputs *)

MiB == PARTITION_ALIGNMENT

\* byte positions passed to plan_add_partition: the aligned ones, and ones
\* just above and just below the first two boundaries
Positions ==
    {k * MiB : k \in 0..DiskMiB} \cup {100, MiB - 100, MiB + 100, 2 * MiB - 100}

\* byte extents given to MockDisk::add_partition
DiskPositions == {k * MiB : k \in 0..DiskMiB}

\* offsets given to with_start_offset: the first usable LBA of a GPT header
\* in bytes
StartOffsets == {34 * SECTOR_SIZE}

\* offsets given to with_end_offset: the last usable LBA of a GPT header in
\* bytes
EndOffsets(d) == {(d.sectors - 34) * SECTOR_SIZE}

Builds == {"debug", "release"}

\* sizes asked of a strategy
Sizes == {MiB, 2 * MiB}

SizeRequirements ==
    {Exact(n) : n \in Sizes} \cup {AtLeast(n) : n \in Sizes}
    \cup {Range(q[1], q[2]) : q \in {w \in Sizes \X Sizes : w[1] <= w[2]}} \cup {Remaining}

Allocations == {"InitializeWholeDisk", "LargestFree", "FirstFit", "SpecificRegion"}

\* regions given to SpecificRegion
SpecificRegions == {Region(s, e) : s \in DiskPositions, e \in DiskPositions}

NoStrategy == StrategyNew("none", Region(0, 0))

NoPlanner == [usable_start |-> 0, usable_end |-> 0, changes |-> <<>>, original_regions |-> <<>>]

Idle == [phase |-> "idle", base |-> NoPlanner, succ |-> 0, k |-> 0]

\* the builds whose outcome differs for plan_add_partition(start, end)
BuildsOf(start, end) ==
    IF AlignOverflows(start, align_up(start, PARTITION_ALIGNMENT))
       \/ AlignOverflows(end, align_down(end, PARTITION_ALIGNMENT))
    THEN Builds ELSE {"release"}

Errors == {"RegionOverlap", "RegionOutOfBounds", "NoFreeRegions"}

\* Where a call leaves the session.  A call that returns with the planner as
\* it was before (a rejected request, undo() on an empty queue) is not
\* extended: the calls that can follow it are exactly those that can follow
\* the state it was made in, and they are taken from there.
PcAfter(p, r) ==
    IF r.result = "panic" THEN "panicked"
    ELSE IF r.planner = p THEN "unchanged" ELSE "planning"

-----------------------------------------------------------------------------
(* Operations on the planner *)

Init ==
    /\ disk = MockDiskNew(DiskMiB * MiB)
    /\ planner = NoPlanner
    /\ pc = "disk"
    /\ op = "MockDisk::new"
    /\ args = <<>>
    /\ strategy = NoStrategy
    /\ result = "unit"
    /\ run = Idle
    /\ devices = <<>>
    /\ configs = NoConfigs
    /\ plans = <<>>
    /\ image = NoBytes
    /\ sysfs = NoNode
    /\ blkpg = NoTable
    /\ loops = NoLoops

MockAdd ==
    /\ pc = "disk"
    /\ Len(disk.partitions) < MaxParts
    /\ \E s \in DiskPositions, e \in DiskPositions :
        /\ s < e
        /\ \A i \in 1..Len(disk.partitions) :
              e <= disk.partitions[i].start * SECTOR_SIZE
              \/ disk.partitions[i].end * SECTOR_SIZE <= s
        /\ disk' = MockAddPartition(disk, s, e)
        /\ op' = "MockDisk::add_partition"
    /\ result' = "unit"
    /\ args' = <<>>
    /\ UNCHANGED <<loops, blkpg, sysfs, image, devices, configs, plans, planner, pc, strategy, run>>

New ==
    /\ pc = "disk"
    /\ planner' = PlannerNew(disk)
    /\ pc' = "built"
    /\ op' = "new"
    /\ result' = "unit"
    /\ args' = <<>>
    /\ UNCHANGED <<loops, blkpg, sysfs, image, devices, configs, plans, disk, strategy, run>>

WithStartOffset ==
    /\ pc = "built"
    /\ \E n \in StartOffsets :
        /\ planner' = with_start_offset(planner, n)
        /\ op' = "with_start_offset"
    /\ result' = "unit"
    /\ args' = <<>>
    /\ UNCHANGED <<loops, blkpg, sysfs, image, devices, configs, plans, disk, pc, strategy, run>>

WithEndOffset ==
    /\ pc = "built"
    /\ \E n \in EndOffsets(disk) :
        /\ planner' = with_end_offset(planner, n)
        /\ op' = "with_end_offset"
    /\ result' = "unit"
    /\ args' = <<>>
    /\ UNCHANGED <<loops, blkpg, sysfs, image, devices, configs, plans, disk, pc, strategy, run>>

PlanAdd ==
    /\ pc \in {"built", "planning"}
    /\ \E start \in Positions, end \in Positions :
      \E b \in BuildsOf(start, end) :
        LET r == plan_add_partition(planner, start, end, b) IN
        /\ start <= end
        /\ Len(r.planner.changes) <= MaxChanges
        /\ planner' = r.planner
        /\ result' = r.result
        /\ pc' = PcAfter(planner, r)
        /\ op' = "plan_add_partition"
        /\ run' = LET ok == IF r.result = "Ok" THEN 1 ELSE 0 IN
                  IF run.phase = "adding"
                  THEN [run EXCEPT !.succ = @ + ok, !.k = @ + ok]
                  ELSE [phase |-> "adding", base |-> planner, succ |-> ok, k |-> ok]
    /\ args' = <<>>
    /\ UNCHANGED <<loops, blkpg, sysfs, image, devices, configs, plans, disk, strategy>>

\* plan_add_partition, with its arguments recorded
PlanAddArgs ==
    /\ pc \in {"built", "planning"}
    /\ \E start \in Positions, end \in Positions :
      \E b \in BuildsOf(start, end) :
        LET r == plan_add_partition(planner, start, end, b) IN
        /\ start <= end
        /\ Len(r.planner.changes) <= MaxChanges
        /\ planner' = r.planner
        /\ result' = r.result
        /\ pc' = PcAfter(planner, r)
        /\ op' = "plan_add_partition"
        /\ args' = <<start, end>>
    /\ run' = Idle
    /\ UNCHANGED <<loops, blkpg, sysfs, image, devices, configs, plans, disk, strategy>>

PlanDelete ==
    /\ pc \in {"built", "planning"}
    /\ \E index \in 0..MaxParts :
      \E b \in IF SubOverflows(planner.usable_end, planner.usable_start)
                THEN Builds ELSE {"release"} :
        LET r == plan_delete_partition(planner, index, b) IN
        /\ Len(r.planner.changes) <= MaxChanges
        /\ planner' = r.planner
        /\ result' = r.result
        /\ pc' = PcAfter(planner, r)
        /\ op' = "plan_delete_partition"
    /\ run' = Idle
    /\ args' = <<>>
    /\ UNCHANGED <<loops, blkpg, sysfs, image, devices, configs, plans, disk, strategy>>

Undo ==
    /\ pc \in {"built", "planning"}
    /\ LET r == undo(planner) IN
        /\ planner' = r.planner
        /\ result' = r.result
        /\ pc' = PcAfter(planner, r)
    /\ op' = "undo"
    /\ run' = IF run.phase \in {"adding", "undoing"} /\ run.succ > 0
              THEN [run EXCEPT !.phase = "undoing", !.succ = @ - 1]
              ELSE Idle
    /\ args' = <<>>
    /\ UNCHANGED <<loops, blkpg, sysfs, image, devices, configs, plans, disk, strategy>>

Reset ==
    /\ pc \in {"built", "planning"}
    /\ LET r == reset(planner) IN
        /\ planner' = r.planner
        /\ result' = r.result
        /\ pc' = PcAfter(planner, r)
    /\ op' = "reset"
    /\ run' = Idle
    /\ args' = <<>>
    /\ UNCHANGED <<loops, blkpg, sysfs, image, devices, configs, plans, disk, strategy>>

PlanInitializeDisk ==
    /\ pc \in {"built", "planning"}
    /\ LET r == plan_initialize_disk(planner) IN
        /\ planner' = r.planner
        /\ result' = r.result
        /\ pc' = PcAfter(planner, r)
    /\ op' = "plan_initialize_disk"
    /\ run' = Idle
    /\ args' = <<>>
    /\ UNCHANGED <<loops, blkpg, sysfs, image, devices, configs, plans, disk, strategy>>

Next ==
    \/ MockAdd
    \/ New
    \/ WithStartOffset
    \/ WithEndOffset
    \/ PlanAdd
    \/ PlanDelete
    \/ Undo
    \/ Reset
    \/ PlanInitializeDisk

Spec == Init /\ [][Next]_vars

NextAdd ==
    \/ MockAdd
    \/ New
    \/ WithStartOffset
    \/ WithEndOffset
    \/ PlanAddArgs
    \/ PlanDelete
    \/ Undo
    \/ Reset
    \/ PlanInitializeDisk

\* the planner, with the arguments of plan_add_partition recorded
SpecAdd == Init /\ [][NextAdd]_vars

-----------------------------------------------------------------------------
(* Operations on the strategy *)

NewStrategy ==
    /\ pc = "built"
    /\ strategy = NoStrategy
    /\ \E allocation \in Allocations :
        \E region \in IF allocation = "SpecificRegion"
                       THEN {r \in SpecificRegions : r.start < r.end}
                       ELSE {Region(0, 0)} :
            strategy' = StrategyNew(allocation, region)
    /\ op' = "Strategy::new"
    /\ args' = <<>>
    /\ result' = "unit"
    /\ UNCHANGED <<loops, blkpg, sysfs, image, devices, configs, plans, disk, planner, pc, run>>

AddRequest ==
    /\ pc = "built"
    /\ strategy # NoStrategy
    /\ Len(strategy.requests) < MaxRequests
    /\ \E request \in SizeRequirements : strategy' = add_request(strategy, request)
    /\ op' = "add_request"
    /\ args' = <<>>
    /\ result' = "unit"
    /\ UNCHANGED <<loops, blkpg, sysfs, image, devices, configs, plans, disk, planner, pc, run>>

Apply ==
    /\ pc \in {"built", "planning"}
    /\ strategy # NoStrategy
    /\ \E b \in Builds :
        LET r == apply(strategy, planner, b) IN
        /\ planner' = r.planner
        /\ result' = r.result
        /\ pc' = IF r.result = "panic" THEN "panicked" ELSE "applied"
        /\ args' = <<b>>
    /\ op' = "apply"
    /\ UNCHANGED <<loops, blkpg, sysfs, image, devices, configs, plans, disk, strategy, run>>

NextStrategy ==
    \/ MockAdd
    \/ New
    \/ WithStartOffset
    \/ WithEndOffset
    \/ NewStrategy
    \/ AddRequest
    \/ Apply

\* a strategy applied to a freshly built planner
SpecStrategy == Init /\ [][NextStrategy]_vars

\* a disk with room for a free region, a partition behind it and a larger
\* free region behind that
FreeDiskMiB == DiskMiB + 3

InitFree ==
    /\ disk = MockDiskNew(FreeDiskMiB * MiB)
    /\ planner = NoPlanner
    /\ pc = "disk"
    /\ op = "MockDisk::new"
    /\ args = <<>>
    /\ strategy = NoStrategy
    /\ result = "unit"
    /\ run = Idle
    /\ devices = <<>>
    /\ configs = NoConfigs
    /\ plans = <<>>
    /\ image = NoBytes
    /\ sysfs = NoNode
    /\ blkpg = NoTable
    /\ loops = NoLoops

\* Strategy::new for the two allocations that search the free regions
NewFree ==
    /\ pc = "built"
    /\ strategy = NoStrategy
    /\ \E allocation \in {"LargestFree", "FirstFit"} :
        strategy' = StrategyNew(allocation, Region(0, 0))
    /\ op' = "Strategy::new"
    /\ args' = <<>>
    /\ result' = "unit"
    /\ UNCHANGED <<loops, blkpg, sysfs, image, devices, configs, plans, disk, planner, pc, run>>

NextFree ==
    \/ New
    \/ WithStartOffset
    \/ WithEndOffset
    \/ NewFree
    \/ AddRequest
    \/ PlanAdd
    \/ Apply

\* a strategy that searches the free regions, applied after partitions were
\* planned
SpecFree == InitFree /\ [][NextFree]_vars

-----------------------------------------------------------------------------
(* A strategy of longer request lists on the larger disk *)

\* requests added to a strategy that fills a free region
MaxLongRequests == 3

\* Strategy::add_request, up to the longer list
AddRequestLong ==
    /\ pc = "built"
    /\ strategy # NoStrategy
    /\ Len(strategy.requests) < MaxLongRequests
    /\ \E request \in SizeRequirements : strategy' = add_request(strategy, request)
    /\ op' = "add_request"
    /\ args' = <<>>
    /\ result' = "unit"
    /\ UNCHANGED <<loops, blkpg, sysfs, image, devices, configs, plans, disk, planner, pc, run>>

NextRemaining ==
    \/ New
    \/ NewFree
    \/ AddRequestLong
    \/ Apply

\* a strategy of up to three requests applied to the empty larger disk
SpecRemaining == InitFree /\ [][NextRemaining]_vars

-----------------------------------------------------------------------------
(* Operations on the provisioner *)

DiskNames == {"a", "b"}

StrategyNames == {"s", "t"}

\* find-disk commands: without constraints, with min, with exactly, and with
\* min and max
FindCommands ==
    {FindDisk("a", NoConstraints), FindDisk("a", AtLeast(2 * MiB)),
     FindDisk("b", Exact(MiB)), FindDisk("b", Range(MiB, 2 * MiB))}

\* constraints of create-partition
PartitionConstraints == {Exact(2 * MiB), Range(MiB, MiB)}

RECURSIVE CountCommands(_, _)
CountCommands(cfgs, names) ==
    IF names = {} THEN 0
    ELSE LET n == CHOOSE x \in names : TRUE
         IN Len(cfgs[n].commands) + CountCommands(cfgs, names \ {n})

TotalCommands == CountCommands(configs, DOMAIN configs)

\* the orders in which a HashMap can yield its keys
Orders(keys) ==
    {q \in [1..Cardinality(keys) -> keys] :
        \A i \in DOMAIN q, j \in DOMAIN q : q[i] = q[j] => i = j}

\* Provisioner::push_device
PushDevice ==
    /\ pc = "disk"
    /\ configs = NoConfigs
    /\ Len(devices) < MaxDevices
    /\ \E n \in Sizes : devices' = Append(devices, MockDiskNew(n))
    /\ op' = "push_device"
    /\ result' = "unit"
    /\ UNCHANGED <<loops, blkpg, sysfs, image, disk, planner, pc, args, strategy, run, configs, plans>>

\* Provisioner::add_strategy of a strategy node; its commands follow
AddStrategy ==
    /\ pc = "disk"
    /\ \E name \in StrategyNames \ DOMAIN configs, inherits \in {""} \cup StrategyNames :
        configs' = Insert(configs, name, StrategyDefinition(name, inherits, <<>>))
    /\ op' = "add_strategy"
    /\ result' = "unit"
    /\ UNCHANGED <<loops, blkpg, sysfs, image, disk, planner, pc, args, strategy, run, devices, plans>>

\* the definition with one more command
WithCommand(name, command) ==
    [configs EXCEPT ![name].commands = Append(@, command)]

\* a find-disk child of a strategy node, with or without constraints
FindDiskCommand ==
    /\ pc = "disk"
    /\ TotalCommands < MaxFinds
    /\ \E name \in DOMAIN configs, command \in FindCommands :
        configs' = WithCommand(name, command)
    /\ op' = "find-disk"
    /\ result' = "unit"
    /\ UNCHANGED <<loops, blkpg, sysfs, image, disk, planner, pc, args, strategy, run, devices, plans>>

\* a find-disk child without constraints
FindAnyDiskCommand ==
    /\ pc = "disk"
    /\ TotalCommands < MaxCommands
    /\ \E name \in DOMAIN configs, n \in DiskNames :
        configs' = WithCommand(name, FindDisk(n, NoConstraints))
    /\ op' = "find-disk"
    /\ result' = "unit"
    /\ UNCHANGED <<loops, blkpg, sysfs, image, disk, planner, pc, args, strategy, run, devices, plans>>

\* a create-partition-table child
CreatePartitionTableCommand ==
    /\ pc = "disk"
    /\ TotalCommands < MaxCommands
    /\ \E name \in DOMAIN configs, n \in DiskNames :
        configs' = WithCommand(name, CreatePartitionTable(n))
    /\ op' = "create-partition-table"
    /\ result' = "unit"
    /\ UNCHANGED <<loops, blkpg, sysfs, image, disk, planner, pc, args, strategy, run, devices, plans>>

\* a create-partition child
CreatePartitionCommand ==
    /\ pc = "disk"
    /\ TotalCommands < MaxCommands
    /\ \E name \in DOMAIN configs, n \in DiskNames, c \in PartitionConstraints :
        configs' = WithCommand(name, CreatePartition(n, c))
    /\ op' = "create-partition"
    /\ result' = "unit"
    /\ UNCHANGED <<loops, blkpg, sysfs, image, disk, planner, pc, args, strategy, run, devices, plans>>

\* Provisioner::plan
Plan ==
    /\ pc = "disk"
    /\ configs # NoConfigs
    /\ \E order \in Orders(DOMAIN configs), b \in Builds :
        \E r \in {plan(devices, configs, order, StackFrames, b)} :
            /\ plans' = r.plans
            /\ result' = r.result
    /\ pc' = "planned"
    /\ op' = "plan"
    /\ UNCHANGED <<loops, blkpg, sysfs, image, disk, planner, args, strategy, run, devices, configs>>

NextAssign ==
    \/ PushDevice
    \/ AddStrategy
    \/ FindDiskCommand
    \/ Plan

\* the provisioner over strategies of find-disk commands
SpecAssign == Init /\ [][NextAssign]_vars

NextProvision ==
    \/ PushDevice
    \/ AddStrategy
    \/ FindAnyDiskCommand
    \/ CreatePartitionTableCommand
    \/ CreatePartitionCommand
    \/ Plan

\* the provisioner over strategies of all three commands
SpecProvision == Init /\ [][NextProvision]_vars

-----------------------------------------------------------------------------
(* Superblock detection over images of several lengths *)

\* lengths of the images: empty, one sector, up to the magic number of ext4,
\* the LUKS2 header, up to the magic number of btrfs, and what from_reader reads
Lengths == {0, 512, 1082, 4096, 65608, 128 * 1024}

\* the image grows, the new bytes being zero
Extend ==
    /\ pc = "disk"
    /\ \E n \in Lengths :
        /\ n > image.len
        /\ image' = [image EXCEPT !.len = n]
    /\ op' = "extend"
    /\ UNCHANGED <<loops, blkpg, sysfs, disk, planner, pc, args, result, strategy, run, devices, configs, plans>>

\* the magic number of a kind is written at its place in the image
WriteMagic ==
    /\ pc = "disk"
    /\ \E i \in 1..Len(Kinds) : \E magic \in Magics(Kinds[i]) :
        /\ read_exact(image, MAGIC_OFFSET(Kinds[i]), MagicSize(Kinds[i]))
        /\ image.at[MAGIC_OFFSET(Kinds[i])] # magic
        /\ image' = [image EXCEPT !.at[MAGIC_OFFSET(Kinds[i])] = magic]
    /\ op' = "write"
    /\ UNCHANGED <<loops, blkpg, sysfs, disk, planner, pc, args, result, strategy, run, devices, configs, plans>>

\* Superblock::from_bytes
FromBytes ==
    /\ pc = "disk"
    /\ result' = from_bytes(image)
    /\ pc' = "read"
    /\ op' = "from_bytes"
    /\ UNCHANGED <<loops, blkpg, sysfs, disk, planner, args, strategy, run, devices, configs, plans, image>>

\* Superblock::from_reader
FromReader ==
    /\ pc = "disk"
    /\ result' = from_reader(image)
    /\ pc' = "read"
    /\ op' = "from_reader"
    /\ UNCHANGED <<loops, blkpg, sysfs, disk, planner, args, strategy, run, devices, configs, plans, image>>

NextDetect ==
    \/ Extend
    \/ WriteMagic
    \/ FromBytes
    \/ FromReader

SpecDetect == Init /\ [][NextDetect]_vars

-----------------------------------------------------------------------------
(* Discovery over the nodes of a sysfs root *)

\* the characters after the prefix of a name
MaxSuffix == 3

Prefixes ==
    {<<"s", "d">>, <<"v", "d">>, <<"l", "o", "o", "p">>, <<"n", "v", "m", "e">>,
     <<"m", "m", "c", "b", "l", "k">>, <<"s", "r">>}

SuffixChars == {"a", "A", "0", "n", "e-acute", "superscript-2"}

Suffixes == UNION {[1..n -> SuffixChars] : n \in 0..MaxSuffix}

\* the names of the nodes: sd, sda, sdA, nvme0n0, mmcblk0, loop, loop0, sr0, ...
Names == {prefix \o suffix : prefix \in Prefixes, suffix \in Suffixes}

\* the names of the nodes whose children are modelled
DiskNodeNames == {<<"s", "d", "a">>, <<"l", "o", "o", "p", "0">>}

\* the children of a node
MaxChildren == 2

\* sectors in the files size and start
Sectors == {0, 2048, 4096}

\* a child of the node: the values of its files partition, start and size;
\* partition is 0 for a child without that file (queue, device, ...)
Children == [partition : 0..MaxChildren, start : Sectors, size : Sectors]

\* a directory for a block device, of any name, appears under the sysfs root
MakeNode ==
    /\ pc = "disk"
    /\ sysfs = NoNode
    /\ disk.partitions = <<>>
    /\ \E name \in Names, sectors \in Sectors :
        sysfs' = [name |-> name, size |-> sectors, children |-> <<>>]
    /\ op' = "mkdir"
    /\ UNCHANGED <<disk, planner, pc, args, result, strategy, run, devices, configs, plans,
                   image, blkpg, loops>>

\* a directory for a disk or a loop device appears under the sysfs root
MakeDiskNode ==
    /\ pc = "disk"
    /\ sysfs = NoNode
    /\ disk.partitions = <<>>
    /\ \E name \in DiskNodeNames, sectors \in Sectors :
        sysfs' = [name |-> name, size |-> sectors, children |-> <<>>]
    /\ op' = "mkdir"
    /\ UNCHANGED <<disk, planner, pc, args, result, strategy, run, devices, configs, plans,
                   image, blkpg, loops>>

\* a directory appears in the node
AddChild ==
    /\ pc = "disk"
    /\ sysfs # NoNode
    /\ Len(sysfs.children) < MaxChildren
    /\ \E child \in Children : sysfs' = [sysfs EXCEPT !.children = Append(@, child)]
    /\ op' = "mkdir"
    /\ UNCHANGED <<disk, planner, pc, args, result, strategy, run, devices, configs, plans,
                   image, blkpg, loops>>

\* BlockDevice::from_sysfs_path, on the name of the node or, before any node
\* was made, on a name without a node
FromSysfsPath ==
    /\ pc = "disk"
    /\ disk.partitions = <<>>
    /\ \E name \in IF sysfs = NoNode THEN Names ELSE {sysfs.name} :
        /\ result' = BlockDeviceFromSysfs(sysfs, name)
        /\ args' = <<name>>
    /\ pc' = "discovered"
    /\ op' = "from_sysfs_path"
    /\ UNCHANGED <<disk, planner, strategy, run, devices, configs, plans, image, sysfs, blkpg, loops>>

\* MockDisk::add_partition with any byte offsets; end - start leaves the u64
\* range where end < start
MockAddPartitionAt ==
    /\ pc = "disk"
    /\ sysfs = NoNode
    /\ Len(disk.partitions) < MaxParts
    /\ \E s \in DiskPositions \cup {(DiskMiB + 1) * MiB},
          e \in DiskPositions \cup {(DiskMiB + 1) * MiB},
          b \in Builds :
        /\ SubOverflows(e, s) \/ b = "release"
        /\ IF SubOverflows(e, s) /\ b = "debug"
           THEN /\ pc' = "panicked"
                /\ result' = "panic"
                /\ disk' = disk
           ELSE /\ pc' = pc
                /\ result' = "unit"
                /\ disk' = MockAddPartition(disk, s, e)
        /\ args' = <<s, e, b>>
    /\ op' = "MockDisk::add_partition"
    /\ UNCHANGED <<planner, strategy, run, devices, configs, plans, image, sysfs, blkpg, loops>>

NextClassify ==
    \/ MakeNode
    \/ FromSysfsPath

\* classification of the names
SpecClassify == Init /\ [][NextClassify]_vars

NextDiscover ==
    \/ MakeDiskNode
    \/ AddChild
    \/ FromSysfsPath
    \/ MockAddPartitionAt

\* the devices of discovery and of the mock disk
SpecDiscover == Init /\ [][NextDiscover]_vars

-----------------------------------------------------------------------------
(* Synchronisation over devices of a few partitions *)

\* entries of the GPT and partitions of the kernel
MaxEntries == 2

\* extents in sectors: [first_lba, last_lba]
Extents ==
    {[first_lba |-> 2048, last_lba |-> 4095], [first_lba |-> 4096, last_lba |-> 6143],
     [first_lba |-> 2048, last_lba |-> 6143]}

\* the logical blocks two extents share
Shared(a, b) == a.first_lba <= b.last_lba /\ b.first_lba <= a.last_lba

\* a partition the kernel shows before the call, in use (mounted) or not
KernelPartition ==
    /\ pc = "disk"
    /\ disk.partitions = <<>>
    /\ sysfs = NoNode
    /\ \E pno \in 1..MaxEntries, e \in Extents, busy \in BOOLEAN :
        /\ AddAccepted(blkpg.kernel, pno, e.first_lba * BlockSize,
                       (e.last_lba - e.first_lba + 1) * BlockSize)
        /\ blkpg' = [blkpg EXCEPT !.kernel =
               Insert(@, pno, [start |-> e.first_lba * BlockSize,
                               length |-> (e.last_lba - e.first_lba + 1) * BlockSize,
                               busy |-> busy])]
    /\ op' = "partition"
    /\ UNCHANGED <<disk, planner, pc, args, result, strategy, run, devices, configs, plans,
                   image, sysfs, loops>>

\* an entry is written to the GPT of the device
GptEntry ==
    /\ pc = "disk"
    /\ disk.partitions = <<>>
    /\ sysfs = NoNode
    /\ \E pno \in 1..MaxEntries, e \in Extents :
        /\ pno \notin DOMAIN blkpg.gpt
        /\ \A n \in DOMAIN blkpg.gpt : ~Shared(blkpg.gpt[n], e)
        /\ blkpg' = [blkpg EXCEPT !.gpt = Insert(@, pno, e)]
    /\ op' = "gpt"
    /\ UNCHANGED <<disk, planner, pc, args, result, strategy, run, devices, configs, plans,
                   image, sysfs, loops>>

\* sync_gpt_partitions
Sync ==
    /\ pc = "disk"
    /\ disk.partitions = <<>>
    /\ sysfs = NoNode
    /\ \E r \in {sync_gpt_partitions(blkpg)} :
        /\ blkpg' = r.dev
        /\ result' = r.result
    /\ args' = <<blkpg>>
    /\ pc' = "synced"
    /\ op' = "sync_gpt_partitions"
    /\ UNCHANGED <<disk, planner, strategy, run, devices, configs, plans, image, sysfs, loops>>

NextSync ==
    \/ KernelPartition
    \/ GptEntry
    \/ Sync

SpecSync == Init /\ [][NextSync]_vars

-----------------------------------------------------------------------------
(* Loop devices over a few handles and backing files *)

\* LoopDevice values created in a run
MaxHandles == 3

\* the backing files
Files == {"a.img", "b.img", "missing.img"}

\* the backing files that can be opened for reading and writing
Openable == {"a.img", "b.img"}

LoopIdle ==
    /\ pc \in {"disk", "loop"}
    /\ disk.partitions = <<>>
    /\ sysfs = NoNode
    /\ blkpg = NoTable

\* LoopDevice::create
Create ==
    /\ LoopIdle
    /\ Len(loops.handles) < MaxHandles
    /\ \E r \in {create(loops)} :
        /\ loops' = r.loops
        /\ result' = r.result
    /\ args' = <<>>
    /\ pc' = "loop"
    /\ op' = "create"
    /\ UNCHANGED <<disk, planner, strategy, run, devices, configs, plans, image, sysfs, blkpg>>

\* LoopDevice::attach
Attach ==
    /\ LoopIdle
    /\ \E h \in 1..Len(loops.handles), file \in Files, status_set \in BOOLEAN :
        /\ loops.handles[h].open
        /\ \E r \in {attach(loops, h, file \in Openable, file, status_set)} :
            /\ loops' = r.loops
            /\ result' = r.result
        /\ args' = <<h, file>>
    /\ pc' = "loop"
    /\ op' = "attach"
    /\ UNCHANGED <<disk, planner, strategy, run, devices, configs, plans, image, sysfs, blkpg>>

\* LoopDevice::detach
Detach ==
    /\ LoopIdle
    /\ \E h \in 1..Len(loops.handles) :
        /\ loops.handles[h].open
        /\ \E r \in {detach(loops, h)} :
            /\ loops' = r.loops
            /\ result' = r.result
        /\ args' = <<h>>
    /\ pc' = "loop"
    /\ op' = "detach"
    /\ UNCHANGED <<disk, planner, strategy, run, devices, configs, plans, image, sysfs, blkpg>>

\* a LoopDevice goes out of scope
Drop ==
    /\ LoopIdle
    /\ \E h \in 1..Len(loops.handles) :
        /\ loops.handles[h].open
        /\ loops' = drop(loops, h)
        /\ args' = <<h>>
    /\ result' = "unit"
    /\ pc' = "loop"
    /\ op' = "drop"
    /\ UNCHANGED <<disk, planner, strategy, run, devices, configs, plans, image, sysfs, blkpg>>

NextLoop ==
    \/ Create
    \/ Attach
    \/ Detach
    \/ Drop

SpecLoop == Init /\ [][NextLoop]_vars

-----------------------------------------------------------------------------
(* The strategy parser over short documents *)

\* nodes of a document
MaxNodes == 2

\* children of a strategy node
MaxChildNodes == 2

\* the names of nodes that are no commands
OtherNames == {"mount"}

\* the children of a strategy: find-disk with its argument, find-disk
\* without one, and a node that is no command
ChildNodes ==
    {[name |-> "find-disk", properties |-> <<>>,
      arguments |-> <<[type |-> "String", value |-> "root_disk"]>>, children |-> <<>>],
     [name |-> "find-disk", properties |-> <<>>, arguments |-> <<>>, children |-> <<>>]}
    \cup {[name |-> n, properties |-> <<>>, arguments |-> <<>>, children |-> <<>>] :
            n \in OtherNames}

ChildLists == UNION {[1..n -> ChildNodes] : n \in 0..MaxChildNodes}

\* the properties of a strategy node: complete without and with inherits,
\* without a name, and with a summary and an inherits that are no strings
Headers ==
    {[name |-> [type |-> "String", value |-> "whole_disk"],
      summary |-> [type |-> "String", value |-> "Wipe and use an entire disk"],
      inherits |-> Absent],
     [name |-> [type |-> "String", value |-> "whole_disk"],
      summary |-> [type |-> "String", value |-> "Wipe and use an entire disk"],
      inherits |-> [type |-> "String", value |-> "base"]],
     [name |-> Absent,
      summary |-> [type |-> "String", value |-> "Wipe and use an entire disk"],
      inherits |-> Absent],
     [name |-> [type |-> "String", value |-> "whole_disk"],
      summary |-> [type |-> "Integer", value |-> "7"],
      inherits |-> [type |-> "Integer", value |-> "7"]]}

StrategyNodes ==
    {[name |-> "strategy", properties |-> header, arguments |-> <<>>, children |-> children] :
        header \in Headers, children \in ChildLists}

TopNodes ==
    StrategyNodes
    \cup {[name |-> n, properties |-> <<>>, arguments |-> <<>>, children |-> <<>>] :
            n \in OtherNames}

\* Parser::new, of every document of a few nodes
NewParser ==
    /\ pc = "disk"
    /\ disk.partitions = <<>>
    /\ \E n \in 0..MaxNodes :
        \E document \in [1..n -> TopNodes] :
            /\ args' = <<document>>
            /\ result' = ParserNew(document)
    /\ pc' = "parsed"
    /\ op' = "Parser::new"
    /\ UNCHANGED <<loops, blkpg, sysfs, disk, planner, strategy, run, devices, configs, plans, image>>

NextParse == NewParser

SpecParse == Init /\ [][NextParse]_vars

-----------------------------------------------------------------------------
(* Properties of the planner *)

Planned == pc \in {"built", "planning", "unchanged", "panicked"}

\* the regions current_layout() returns; none when it panics
LayoutRegions(p) == current_layout(p).regions

Disjoint(a, b) == a.end <= b.start \/ b.end <= a.start

Multiple(x) == x % (1024 * 1024) = 0

Last(q) == q[Len(q)]

Adds(p) == {i \in 1..Len(p.changes) : p.changes[i].type = "AddPartition"}

Deletes(p) == {i \in 1..Len(p.changes) : p.changes[i].type = "DeletePartition"}

\* C1: on a device whose partitions are pairwise disjoint (every mock disk
\* here), any two distinct regions of current_layout() are disjoint
\* intervals, whatever sequence of operations led to the state.
C1_NoOverlap ==
    Planned =>
        LET L == LayoutRegions(planner) IN
        \A i \in 1..Len(L), j \in 1..Len(L) : i # j => Disjoint(L[i], L[j])

\* an added region beside an inherited one, after a deletion
C1_Witness ==
    /\ pc = "planning"
    /\ Adds(planner) # {} /\ Deletes(planner) # {}
    /\ ~current_layout(planner).panic
    /\ Len(LayoutRegions(planner)) >= 3
    /\ Len(planner.original_regions) = 2

\* C2: every region of current_layout(), the inherited ones included, lies
\* in the usable window: usable_start <= start < end <= usable_end.
C2_InWindow ==
    pc \in {"built", "planning", "unchanged"} =>
        LET L == LayoutRegions(planner) IN
        \A i \in 1..Len(L) :
            /\ planner.usable_start <= L[i].start
            /\ L[i].start < L[i].end
            /\ L[i].end <= planner.usable_end

\* C3: every queued AddPartition starts and ends on a multiple of 1 MiB.
C3_Aligned ==
    \A i \in Adds(planner) :
        Multiple(planner.changes[i].start) /\ Multiple(planner.changes[i].end)

\* C4: a plan_add_partition or plan_delete_partition call that returns a
\* PlanError leaves the queue, the initial regions and the window as they were.
C4_ErrorKeepsState ==
    [][(op' \in {"plan_add_partition", "plan_delete_partition"} /\ result' \in Errors)
          => planner' = planner]_vars

\* a rejected add on a planner with pending changes
C4_Witness ==
    /\ op = "plan_add_partition"
    /\ result = "RegionOverlap"
    /\ planner.changes # <<>>

\* C5: after a run of plan_add_partition calls of which k succeeded, each of
\* the next k undo calls returns true and the last brings the queue and
\* current_layout() back to what they were before the run; undo on an empty
\* queue returns false and changes nothing.
C5_UndoRestores ==
    [][op' = "undo" =>
        /\ planner.changes = <<>> => (result' = "false" /\ planner' = planner)
        /\ (run.phase \in {"adding", "undoing"} /\ run.succ > 0) =>
             /\ result' = "true"
             /\ run.succ = 1 =>
                  /\ planner'.changes = run.base.changes
                  /\ current_layout(planner') = current_layout(run.base)]_vars

\* two adds undone by two undos, over a queue that was not empty
C5_Witness ==
    /\ op = "undo" /\ result = "true"
    /\ run.phase = "undoing" /\ run.succ = 0 /\ run.k = 2
    /\ run.base.changes # <<>>
    /\ planner.changes = run.base.changes

\* the layout the contract describes: the initial regions whose index was
\* not deleted, in order, then the added regions in insertion order
RECURSIVE KeepUndeleted(_, _, _)
KeepUndeleted(regions, i, deleted) ==
    IF regions = <<>> THEN <<>>
    ELSE (IF i \in deleted THEN <<>> ELSE <<Head(regions)>>)
         \o KeepUndeleted(Tail(regions), i + 1, deleted)

RECURSIVE AddedRegions(_)
AddedRegions(q) ==
    IF q = <<>> THEN <<>>
    ELSE (IF Head(q).type = "AddPartition"
          THEN <<[start |-> Head(q).start, end |-> Head(q).end]>> ELSE <<>>)
         \o AddedRegions(Tail(q))

ExpectedLayout(p) ==
    KeepUndeleted(p.original_regions, 0,
                  {p.changes[i].original_index : i \in Deletes(p)})
    \o AddedRegions(p.changes)

\* C6: current_layout() returns normally and equals the initial regions
\* whose index was not deleted followed by the added regions, also when an
\* index was deleted more than once.
C6_LayoutIsExpected ==
    pc \in {"built", "planning", "unchanged"} =>
        /\ ~current_layout(planner).panic
        /\ LayoutRegions(planner) = ExpectedLayout(planner)

\* the region plan_add_partition(start, end) is about: both ends rounded to
\* the nearest multiple of 1 MiB, then clamped to the usable window
Nearest(x, tieUp) ==
    LET lo == (x \div (1024 * 1024)) * (1024 * 1024)
        r == x - lo
    IN IF r = 0 THEN x
       ELSE IF 2 * r > 1024 * 1024 \/ (2 * r = 1024 * 1024 /\ tieUp) THEN lo + 1024 * 1024
       ELSE lo

ClampedRegion(p, start, end) ==
    LET s0 == Nearest(start, FALSE)
        e0 == Nearest(end, TRUE)
    IN [start |-> IF s0 < p.usable_start THEN p.usable_start ELSE s0,
        end |-> IF e0 > p.usable_end THEN p.usable_end ELSE e0]

\* some byte lies in both a and b
SharesByte(a, b) ==
    LET lo == IF a.start > b.start THEN a.start ELSE b.start
        hi == IF a.end < b.end THEN a.end ELSE b.end
    IN lo < hi

SharesWithLayout(p, start, end) ==
    \E i \in 1..Len(LayoutRegions(p)) :
        SharesByte(ClampedRegion(p, start, end), LayoutRegions(p)[i])

C8_AlignedInputKept ==
    [][op' = "plan_add_partition" =>
        LET start == args'[1]
            end == args'[2]
        IN /\ result' = "Ok" =>
                /\ Multiple(start) => Last(planner'.changes).start = start
                /\ Multiple(end) => Last(planner'.changes).end = end
           /\ ((Multiple(start) /\ start < planner.usable_start)
               \/ (Multiple(end) /\ end > planner.usable_end)) =>
                (result' = "RegionOutOfBounds" /\ planner' = planner)]_vars

\* an aligned end beyond usable_end, rejected
C8_Witness ==
    /\ op = "plan_add_partition" /\ result = "RegionOutOfBounds"
    /\ Multiple(args[1]) /\ Multiple(args[2])
    /\ args[1] >= planner.usable_start /\ args[1] < planner.usable_end
    /\ args[2] > planner.usable_end

\* C9: Planner::new yields an empty queue, the window [0, device.size()) and
\* one initial region per partition, its byte extent
\* [start_sector * 512, end_sector * 512).
C9_NewFromDevice ==
    op = "new" =>
        /\ planner.changes = <<>>
        /\ planner.usable_start = 0
        /\ planner.usable_end = disk.sectors * 512
        /\ Len(planner.original_regions) = Len(disk.partitions)
        /\ \A i \in 1..Len(disk.partitions) :
              planner.original_regions[i] =
                  [start |-> disk.partitions[i].start * 512,
                   end |-> disk.partitions[i].end * 512]

-----------------------------------------------------------------------------
(* Properties of the strategy *)

\* what the requests need at least: the Exact sizes and the flexible minima
RECURSIVE MinimumSum(_)
MinimumSum(requests) ==
    IF requests = <<>> THEN 0 ELSE Head(requests).min + MinimumSum(Tail(requests))

\* the requests fit in the target region apply chose
Fits(st, p) ==
    /\ Target(st, p).result = "Ok"
    /\ MinimumSum(st.requests) <= Target(st, p).region.end - Target(st, p).region.start

\* C10: apply returns RegionOutOfBounds only when the Exact sizes plus the
\* flexible minima exceed the target region, NoFreeRegions only when
\* LargestFree / FirstFit finds no free region, and Ok whenever the requests
\* fit in the target region.
C10_ApplyFailsOnlyAsDocumented ==
    [][op' = "apply" =>
        /\ result' = "RegionOutOfBounds" =>
              (Target(strategy, planner).result = "Ok" /\ ~Fits(strategy, planner))
        /\ result' = "NoFreeRegions" =>
              (strategy.allocation \in {"LargestFree", "FirstFit"}
               /\ find_free_regions(planner) = <<>>)
        /\ Fits(strategy, planner) => result' = "Ok"]_vars

\* the requests in the order apply plans them: the Exact ones, then the
\* flexible ones
PlanOrder(requests) ==
    SelectSeq(requests, LAMBDA q : q.kind = "Exact")
    \o SelectSeq(requests, LAMBDA q : q.kind # "Exact")

\* a partition of sz bytes meets the size requirement q
Satisfies(q, sz) ==
    CASE q.kind = "Exact" -> sz = q.min
      [] q.kind = "AtLeast" -> sz >= q.min
      [] q.kind = "Range" -> q.min <= sz /\ sz <= q.max
      [] OTHER -> TRUE

Applied == op = "apply" /\ result = "Ok"

\* C11: after a successful apply on a freshly built planner the queue holds
\* exactly one AddPartition per request, the partition of each request meets
\* its SizeRequirement (size = n for Exact(n), size >= min for AtLeast(min),
\* min <= size <= max for Range), and the new partitions are pairwise
\* disjoint and end at or before usable_end.
C11_AppliedMeetsRequests ==
    Applied =>
        LET c == planner.changes
            order == PlanOrder(strategy.requests)
        IN /\ Len(c) = Len(strategy.requests)
           /\ \A i \in 1..Len(c) : c[i].type = "AddPartition"
           /\ \A i \in 1..Len(c) :
                 /\ i <= Len(order) => Satisfies(order[i], c[i].end - c[i].start)
                 /\ c[i].end <= planner.usable_end
           /\ \A i \in 1..Len(c), j \in 1..Len(c) : i # j => Disjoint(c[i], c[j])

\* C12: whenever apply returns a PlanError, for every allocation strategy,
\* the change queue and the initial regions of the planner are what they
\* were before the call.
C12_FailedApplyKeepsPlanner ==
    [][(op' = "apply" /\ result' \in Errors) =>
          /\ planner'.changes = planner.changes
          /\ planner'.original_regions = planner.original_regions]_vars

\* the regions of current_layout() as a set
Existing(p) == {LayoutRegions(p)[i] : i \in 1..Len(LayoutRegions(p))}

\* [s, e) lies in the usable window and shares no byte with an existing region
FreeOf(p, s, e) ==
    /\ p.usable_start <= s /\ s < e /\ e <= p.usable_end
    /\ \A r \in Existing(p) : ~SharesByte(r, Region(s, e))

\* the gaps between the existing regions within the usable window: the
\* free intervals that no larger free interval contains
FreeGaps(p) ==
    LET points == {p.usable_start, p.usable_end}
                  \cup {r.start : r \in Existing(p)} \cup {r.end : r \in Existing(p)}
        free == {g \in {Region(s, e) : s \in points, e \in points} :
                    FreeOf(p, g.start, g.end)}
    IN {g \in free : \A h \in free : (h.start <= g.start /\ g.end <= h.end) => h = g}

LargestGaps(p) == {g \in FreeGaps(p) : \A h \in FreeGaps(p) : size(h) <= size(g)}

\* the changes apply queued behind those of p
NewChanges(p, q) == SubSeq(q.changes, Len(p.changes) + 1, Len(q.changes))

Within(c, g) == g.start <= c.start /\ c.end <= g.end

\* C13: with LargestFree, a successful apply puts every new partition inside
\* one largest gap between the existing regions within the usable window and
\* leaves every existing region as it was, and apply returns NoFreeRegions
\* when there is no gap at all.
C13_LargestFreeFillsLargestGap ==
    [][(op' = "apply" /\ strategy.allocation = "LargestFree") =>
          /\ result' = "Ok" =>
                /\ planner'.original_regions = planner.original_regions
                /\ SubSeq(planner'.changes, 1, Len(planner.changes)) = planner.changes
                /\ \A i \in 1..Len(NewChanges(planner, planner')) :
                      NewChanges(planner, planner')[i].type = "AddPartition"
                /\ \E g \in LargestGaps(planner) :
                      \A i \in 1..Len(NewChanges(planner, planner')) :
                          Within(NewChanges(planner, planner')[i], g)
          /\ FreeGaps(planner) = {} => result' = "NoFreeRegions"]_vars

\* the gaps that hold the Exact sizes plus the flexible minima of st
FittingGaps(st, p) == {g \in FreeGaps(p) : MinimumSum(st.requests) <= size(g)}

\* C14: with FirstFit, apply targets the first free region in ascending
\* start order whose size is at least the Exact sizes plus the flexible
\* minima, and it fails with NoFreeRegions only when there is no free region.
C14_FirstFitTargetsFirstFitting ==
    [][(op' = "apply" /\ strategy.allocation = "FirstFit") =>
          /\ FittingGaps(strategy, planner) # {} =>
                /\ Target(strategy, planner).result = "Ok"
                /\ Target(strategy, planner).region \in FittingGaps(strategy, planner)
                /\ \A g \in FittingGaps(strategy, planner) :
                      Target(strategy, planner).region.start <= g.start
                /\ result' # "NoFreeRegions"
          /\ result' = "NoFreeRegions" => FreeGaps(planner) = {}]_vars

-----------------------------------------------------------------------------
(* Properties of the provisioner *)

Returned == pc = "planned" /\ result = "Ok"

\* the commands a strategy is evaluated over: those of its parents, then its own
ChainCommands(name) == FlatCommands(strategy_parents(configs, configs[name], StackFrames).chain)

\* the find-disk commands among them, as positions
Finds(name) ==
    {i \in 1..Len(ChainCommands(name)) : ChainCommands(name)[i].type = "FindDisk"}

FindNames(name) == {ChainCommands(name)[i].name : i \in Finds(name)}

\* the first find-disk command of disk name n
FirstFind(name, n) ==
    ChainCommands(name)[CHOOSE i \in Finds(name) :
        /\ ChainCommands(name)[i].name = n
        /\ \A j \in Finds(name) : ChainCommands(name)[j].name = n => i <= j]

\* a device of sz bytes meets the constraint c of a find-disk
SizeMeets(sz, c) ==
    /\ c.kind = "AtLeast" => sz >= c.min
    /\ c.kind = "Exact" => sz = c.min
    /\ c.kind = "Range" => (c.min <= sz /\ sz <= c.max)

\* the device a plan binds the disk name n to
DeviceOf(pl, n) == devices[pl.device_assignments[n].device]

Injective(pl) ==
    \A n \in DOMAIN pl.device_assignments, m \in DOMAIN pl.device_assignments :
        pl.device_assignments[n].device = pl.device_assignments[m].device => n = m

\* C15 as stated: in every Plan that plan() returns, the name of each
\* find-disk command is bound to a pool device whose size meets the
\* constraint of that command, and no two names are bound to the same device.
C15_EveryFindMet ==
    Returned =>
        \A k \in 1..Len(plans) :
            /\ \A i \in Finds(plans[k].strategy) :
                  LET command == ChainCommands(plans[k].strategy)[i] IN
                  /\ command.name \in DOMAIN plans[k].device_assignments
                  /\ SizeMeets(DeviceSize(DeviceOf(plans[k], command.name)),
                               command.constraints)
            /\ Injective(plans[k])

\* C15: in every Plan that plan() returns, each find-disk name is bound to a
\* pool device whose size meets the constraint of the first find-disk command
\* of that name in the chain (a later find-disk of a bound name is skipped),
\* and no two names are bound to the same device.
C15_FirstFindMet ==
    Returned =>
        \A k \in 1..Len(plans) :
            /\ DOMAIN plans[k].device_assignments = FindNames(plans[k].strategy)
            /\ \A n \in FindNames(plans[k].strategy) :
                  /\ plans[k].device_assignments[n].device \in 1..Len(devices)
                  /\ SizeMeets(DeviceSize(DeviceOf(plans[k], n)),
                               FirstFind(plans[k].strategy, n).constraints)
            /\ Injective(plans[k])

\* a plan that binds two names, one of them under a constraint that some
\* device of the pool does not meet
C15_Witness ==
    /\ Returned
    /\ \E k \in 1..Len(plans) :
          /\ DOMAIN plans[k].device_assignments = DiskNames
          /\ \E n \in DiskNames, d \in 1..Len(devices) :
                ~SizeMeets(DeviceSize(devices[d]), FirstFind(plans[k].strategy, n).constraints)

\* the injective assignments of pool devices to the find-disk names of a
\* strategy
InjectiveAssignments(name) ==
    {f \in [FindNames(name) -> 1..Len(devices)] :
        \A n \in FindNames(name), m \in FindNames(name) : f[n] = f[m] => n = m}

\* those under which every find-disk command has a device that meets its
\* constraint
MeetingAll(name) ==
    {f \in InjectiveAssignments(name) :
        \A i \in Finds(name) :
            SizeMeets(DeviceSize(devices[f[ChainCommands(name)[i].name]]),
                      ChainCommands(name)[i].constraints)}

\* those under which the first find-disk command of every name has one
MeetingFirst(name) ==
    {f \in InjectiveAssignments(name) :
        \A n \in FindNames(name) :
            SizeMeets(DeviceSize(devices[f[n]]), FirstFind(name, n).constraints)}

\* the plans returned for a strategy that bind the names as f does
PlansBinding(name, f) ==
    {k \in 1..Len(plans) :
        /\ plans[k].strategy = name
        /\ DOMAIN plans[k].device_assignments = DOMAIN f
        /\ \A n \in DOMAIN f : plans[k].device_assignments[n].device = f[n]}

\* C16 as stated: for each strategy, plan() returns exactly one Plan for
\* every injective assignment of pool devices to its find-disk names that
\* meets the constraints of all its find-disk commands, and no other Plan.
C16_OnePlanPerAssignmentMeetingAll ==
    Returned =>
        \A name \in DOMAIN configs :
            /\ \A f \in MeetingAll(name) : Cardinality(PlansBinding(name, f)) = 1
            /\ \A k \in 1..Len(plans) :
                  plans[k].strategy = name =>
                      \E f \in MeetingAll(name) : k \in PlansBinding(name, f)

\* C16: for each strategy, plan() returns exactly one Plan for every
\* injective assignment of pool devices to its find-disk names (own and
\* inherited) under which every name has a device that meets the constraint
\* of the first find-disk command of that name, and no other Plan; so none
\* when there is no such assignment.
C16_OnePlanPerAssignment ==
    Returned =>
        \A name \in DOMAIN configs :
            /\ \A f \in MeetingFirst(name) : Cardinality(PlansBinding(name, f)) = 1
            /\ \A k \in 1..Len(plans) :
                  plans[k].strategy = name =>
                      \E f \in MeetingFirst(name) : k \in PlansBinding(name, f)

\* a strategy with an inherited and an own find-disk name, for which the
\* constraints admit some of the injective assignments and exclude others
C16_Witness ==
    /\ Returned
    /\ \E name \in DOMAIN configs :
          /\ configs[name].inherits \in DOMAIN configs \ {name}
          /\ FindNames(name) = DiskNames
          /\ MeetingFirst(name) # {}
          /\ MeetingFirst(name) # InjectiveAssignments(name)

\* the requests of the create-partition commands that name disk n, in
\* document order
RECURSIVE RequestsFor(_, _)
RequestsFor(commands, n) ==
    IF commands = <<>> THEN <<>>
    ELSE (IF Head(commands).type = "CreatePartition" /\ Head(commands).name = n
          THEN <<SizeOf(Head(commands).constraints)>> ELSE <<>>)
         \o RequestsFor(Tail(commands), n)

\* C17: in every Plan that plan() returns, the strategy of each assigned
\* disk holds exactly one PartitionRequest per create-partition command that
\* names the disk in the inheritance chain, in document order, however the
\* commands are interleaved.
C17_OneRequestPerCreatePartition ==
    Returned =>
        \A k \in 1..Len(plans) :
            \A n \in DOMAIN plans[k].device_assignments :
                plans[k].device_assignments[n].strategy.requests =
                    RequestsFor(ChainCommands(plans[k].strategy), n)

\* the strategy of an assignment was applied to a planner of its device:
\* its planner is what apply leaves, with Ok or with a PlanError
AppliedTo(dp) ==
    \E b \in Builds :
        LET r == apply(dp.strategy, PlannerNew(devices[dp.device]), b) IN
        r.result # "panic" /\ dp.planner = r.planner

\* C18: whether or not Strategy::apply fails for assignments of a
\* fully-resolved branch, plan() returns the Plan of that branch with the
\* strategy of every one of its assignments applied, and the plans of all
\* other branches and strategies.
C18_PlansDespiteApplyFailure ==
    (pc = "planned" /\ result # "stack overflow") =>
        /\ result = "Ok"
        /\ \A name \in DOMAIN configs :
              \A f \in MeetingFirst(name) :
                  /\ PlansBinding(name, f) # {}
                  /\ \A k \in PlansBinding(name, f) :
                        \A n \in DOMAIN plans[k].device_assignments :
                            AppliedTo(plans[k].device_assignments[n])

\* C19: plan() returns for every finite set of strategies and devices, also
\* when the inherits references form a cycle (a strategy that inherits from
\* itself, two strategies that inherit from each other): the recursion over
\* the parents never uses up the stack.
C19_PlanReturns ==
    pc = "planned" => result # "stack overflow"

-----------------------------------------------------------------------------
(* Properties of superblock detection *)

\* the kinds whose magic number the image carries, by their place in Kinds
Carried == {i \in 1..Len(Kinds) :
               /\ read_exact(image, MAGIC_OFFSET(Kinds[i]), MagicSize(Kinds[i]))
               /\ image.at[MAGIC_OFFSET(Kinds[i])] \in Magics(Kinds[i])}

\* the earliest of the kinds carried
Earliest == CHOOSE i \in Carried : \A j \in Carried : i <= j

\* C20: from_bytes returns the earliest kind, in the order Ext4, Btrfs, F2FS,
\* XFS, LUKS2, whose magic number the image carries, and UnknownSuperblock
\* when the image carries none.
C20_EarliestKindOrUnknown ==
    pc = "read" =>
        IF Carried = {}
        THEN result = [result |-> "Err", value |-> "UnknownSuperblock"]
        ELSE result = [result |-> "Ok", value |-> Kinds[Earliest]]

\* the probes of the image that cannot complete: the magic number or the
\* record of the kind lies beyond the end of the image
Incomplete == {i \in 1..Len(Kinds) :
                  \/ ~read_exact(image, MAGIC_OFFSET(Kinds[i]), MagicSize(Kinds[i]))
                  \/ /\ i \in Carried
                     /\ ~read_exact(image, OFFSET(Kinds[i]), SIZE(Kinds[i]))}

\* C21: a probe that cannot complete is reported by detect_superblock as no
\* match, not as an error, and from_bytes and from_reader on an input that
\* carries no magic number, however short, end with UnknownSuperblock.
C21_IncompleteProbeIsNoMatch ==
    pc = "read" =>
        /\ \A i \in Incomplete : detect_superblock(Kinds[i], image) = "None"
        /\ Carried = {} => result = [result |-> "Err", value |-> "UnknownSuperblock"]

-----------------------------------------------------------------------------
(* Properties of discovery *)

\* ^sd[a-z]+$ and ^vd[a-z]+$
LettersAfter(name, prefix) ==
    /\ starts_with(name, prefix)
    /\ Len(name) > Len(prefix)
    /\ \A i \in Len(prefix) + 1..Len(name) : name[i] \in LowerCase

\* ^loop\d+$
DigitsAfter(name, prefix) ==
    /\ starts_with(name, prefix)
    /\ Len(name) > Len(prefix)
    /\ \A i \in Len(prefix) + 1..Len(name) : name[i] \in Digits

\* the family whose pattern the name matches
FamilyOf(name) ==
    IF LettersAfter(name, <<"s", "d">>) THEN "scsi"
    ELSE IF nvme_matching(name) THEN "nvme"
    ELSE IF mmc_matching(name) THEN "mmc"
    ELSE IF LettersAfter(name, <<"v", "d">>) THEN "virtio"
    ELSE IF DigitsAfter(name, <<"l", "o", "o", "p">>) THEN "loopback"
    ELSE "NotFound"

\* C22: from_sysfs_path on the name of a node classifies it under the family
\* whose pattern (^sd[a-z]+$, ^nvme\d+n\d+$, ^mmcblk\d+$, ^vd[a-z]+$,
\* ^loop\d+$) the name matches, and returns not-found for every other name.
C22_ClassifiedIffPatternMatches ==
    pc = "discovered" /\ sysfs.name = args[1] => result.family = FamilyOf(args[1])

\* the invariant of a block device: every partition is a non-empty extent
\* within the device, the numbers are unique and the list is ordered by them
WellFormed(d) ==
    /\ \A i \in 1..Len(d.partitions) :
          /\ d.partitions[i].start < d.partitions[i].end
          /\ d.partitions[i].end <= d.sectors
    /\ \A i, j \in 1..Len(d.partitions) :
          i < j => d.partitions[i].number < d.partitions[j].number

\* C23: every device of BasicDisk::from_sysfs_path, and every mock disk after
\* add_partition, has start < end <= sectors for each partition, unique
\* partition numbers and a partition list ordered by number.
C23_DevicesWellFormed ==
    /\ pc = "discovered" /\ result.disk # <<>> => WellFormed(result.disk[1])
    /\ op = "MockDisk::add_partition" /\ pc = "disk" => WellFormed(disk)

-----------------------------------------------------------------------------
(* Properties of the synchronisation with the GPT *)

\* the byte extents of the partitions of the kernel, by number
KernelExtents ==
    [n \in DOMAIN blkpg.kernel |->
        [start |-> blkpg.kernel[n].start,
         end |-> blkpg.kernel[n].start + blkpg.kernel[n].length]]

\* the byte extents of the entries of the GPT, by number
GptExtents ==
    [n \in DOMAIN blkpg.gpt |->
        [start |-> blkpg.gpt[n].first_lba * 512,
         end |-> (blkpg.gpt[n].last_lba + 1) * 512]]

\* C24: when sync_gpt_partitions returns Ok the partitions of the kernel are
\* exactly the entries of the GPT, with the extents first_lba*512 ..
\* (last_lba+1)*512, also when deletes failed; every delete is requested
\* before the first add, and the first add that fails ends the call with an
\* error.
C24_KernelMatchesGpt ==
    pc = "synced" =>
        /\ result = "Ok" => KernelExtents = GptExtents
        /\ \A i, j \in 1..Len(blkpg.log) :
              blkpg.log[i].request = "delete" /\ blkpg.log[j].request = "add" => i < j
        /\ \A i \in 1..Len(blkpg.log) :
              blkpg.log[i].request = "add" /\ ~blkpg.log[i].ok =>
                  result = "Err" /\ i = Len(blkpg.log)

-----------------------------------------------------------------------------
(* Properties of the loop devices *)

\* the file bound to the loop device of the handle of the step, before and
\* after the step ("" in the state Created)
BackingBefore == loops.devices[loops.handles[args'[1]].devno].backing

BackingAfter == loops'.devices[loops.handles[args'[1]].devno].backing

\* attach succeeds only in the state Created and moves the device to
\* Attached; in the state Attached it fails and leaves the file bound
AttachStep ==
    op' = "attach" =>
        /\ result' = "Ok" => BackingBefore = "" /\ BackingAfter = args'[2]
        /\ BackingBefore # "" => result' = "Err" /\ BackingAfter = BackingBefore

-----------------------------------------------------------------------------
(* Properties of the strategy parser *)

\* the node of a strategy holds what the parser reports with severity error:
\* a name or summary that is missing or no string, an inherits that is no
\* string, or a command with wrong arguments
HasErrors(node) ==
    \/ node.properties["name"].type # "String"
    \/ node.properties["summary"].type # "String"
    \/ node.properties["inherits"].type \notin {"String", "absent"}
    \/ \E i \in 1..Len(node.children) :
          /\ node.children[i].name \in COMMANDS
          /\ \/ Len(node.children[i].arguments) # 1
             \/ node.children[i].arguments[1].type # "String"

\* the positions of the strategy nodes of the document
StrategiesOf(document) == {i \in 1..Len(document) : document[i].name = "strategy"}

\* C26: a document whose diagnostics are all of severity warning (nodes that
\* are not supported, at top level or inside a strategy) is parsed with
\* success, and every strategy of it is kept.
C26_WarningsPermitContinuation ==
    pc = "parsed" /\ (\A i \in StrategiesOf(args[1]) : ~HasErrors(args[1][i])) =>
        /\ result.result = "Ok"
        /\ Len(result.value) = Cardinality(StrategiesOf(args[1]))

-----------------------------------------------------------------------------
(* Properties of the order of the strategy *)

\* the partitions apply queued, in the order of the queue
NewPartitions == NewChanges(planner, planner')

\* C27: a successful apply plans the Exact requests first, in document
\* order, from the start of the target region, and then the flexible
\* requests in document order, each partition starting at the byte where the
\* one before it ends.
C27_FixedThenFlexibleContiguous ==
    [][op' = "apply" /\ result' = "Ok" =>
          /\ Len(NewPartitions) = Len(strategy.requests)
          /\ NewPartitions # <<>> =>
                NewPartitions[1].start = Target(strategy, planner).region.start
          /\ \A i \in 2..Len(NewPartitions) :
                NewPartitions[i].start = NewPartitions[i - 1].end
          /\ \A i \in 1..Len(NewPartitions) :
                Satisfies(PlanOrder(strategy.requests)[i], size(NewPartitions[i]))]_vars


\* the new partitions tile the region: the first starts where it starts, each
\* starts where the one before it ends, and the last ends where it ends
Tiles(parts, region) ==
    /\ parts # <<>>
    /\ parts[1].start = region.start
    /\ \A i \in 2..Len(parts) : parts[i].start = parts[i - 1].end
    /\ parts[Len(parts)].end = region.end

HasRemaining(st) == \E i \in 1..Len(st.requests) : st.requests[i] = Remaining

Aligned(region) ==
    /\ region.start % PARTITION_ALIGNMENT = 0
    /\ region.end % PARTITION_ALIGNMENT = 0

\* C28: after a successful apply on a 1-MiB-aligned target region whose
\* requests include a Remaining request, the new partitions tile the target
\* region exactly, wherever the Remaining request sits.
C28_RemainingFillsTarget ==
    [][(/\ op' = "apply"
        /\ result' = "Ok"
        /\ HasRemaining(strategy)
        /\ Aligned(Target(strategy, planner).region)) =>
          Tiles(NewPartitions, Target(strategy, planner).region)]_vars

-----------------------------------------------------------------------------
(* Properties of the frame of the planner *)

\* the usable window of the planner
Window(p) == <<p.usable_start, p.usable_end>>

\* q is s with at most one element appended
AppendedTo(s, q) == q = s \/ (Len(q) = Len(s) + 1 /\ SubSeq(q, 1, Len(s)) = s)

\* q is s without its last element, or s where s is empty
LastRemoved(s, q) == IF s = <<>> THEN q = <<>> ELSE q = SubSeq(s, 1, Len(s) - 1)

\* C29: plan_add_partition, plan_delete_partition, undo and reset leave the
\* initial regions and the usable window of the planner as they are: the
\* first two append to the change queue, undo removes its last change and
\* reset empties it; of the operations of a planner only
\* plan_initialize_disk changes the initial regions.
C29_InitialRegionsReadOnly ==
    [][/\ op' \in {"plan_add_partition", "plan_delete_partition", "undo", "reset"} =>
             /\ planner'.original_regions = planner.original_regions
             /\ Window(planner') = Window(planner)
       /\ op' \in {"plan_add_partition", "plan_delete_partition"} =>
             AppendedTo(planner.changes, planner'.changes)
       /\ op' = "undo" => LastRemoved(planner.changes, planner'.changes)
       /\ op' = "reset" => planner'.changes = <<>>
       /\ (pc # "disk" /\ planner'.original_regions # planner.original_regions) =>
             op' = "plan_initialize_disk"]_vars

\* reset has emptied a queue that held changes, on a planner with initial
\* regions
C29_Witness ==
    /\ op = "reset"
    /\ pc = "planning"
    /\ planner.changes = <<>>
    /\ planner.original_regions # <<>>

\* C30: plan_initialize_disk empties the change queue and the initial
\* regions, so current_layout() is empty right after it; an undo right after
\* it returns false and, like a reset, brings nothing back; the initial
\* regions stay empty under every later operation, and every
\* plan_delete_partition on a planner without initial regions fails with
\* RegionOutOfBounds and queues nothing.
C30_InitializeIsDestructive ==
    [][/\ op' = "plan_initialize_disk" =>
             /\ result' = "Ok"
             /\ planner'.changes = <<>>
             /\ planner'.original_regions = <<>>
             /\ ~current_layout(planner').panic
             /\ LayoutRegions(planner') = <<>>
       /\ (op = "plan_initialize_disk" /\ op' = "undo") =>
             result' = "false" /\ planner' = planner
       /\ (op = "plan_initialize_disk" /\ op' = "reset") => planner' = planner
       /\ (pc # "disk" /\ planner.original_regions = <<>>) =>
             planner'.original_regions = <<>>
       /\ (planner.original_regions = <<>> /\ op' = "plan_delete_partition") =>
             result' = "RegionOutOfBounds" /\ planner' = planner]_vars

\* plan_initialize_disk has acted on a planner of a device with partitions
C30_Witness ==
    /\ op = "plan_initialize_disk"
    /\ pc = "planning"
    /\ disk.partitions # <<>>
    /\ planner.original_regions = <<>>
    /\ planner.changes = <<>>

=============================================================================
